---- MODULE Spec2Model ----
(***************************************************************************)
(* Two guard-railed MCP tool backends: the exec server (allowlisted        *)
(* commands, fixed cwd, timeout, output caps) and the fetch server (GET    *)
(* only, SSRF policy re-checked on every redirect hop).                    *)
(*                                                                         *)
(* JavaScript values are records with a type tag "t".  Strings that the    *)
(* code inspects character by character are sequences of one-character     *)
(* strings; a string may end in a run of "fill" filler characters "x" and  *)
(* an array in a run of "pad" filler elements, so that the length limits   *)
(* of the code (64 arguments, 8192 characters) keep their real values.     *)
(***************************************************************************)
EXTENDS Integers, Sequences, FiniteSets, TLC

VARIABLES
  eRaw,        \* exec: request.params.arguments as received
  eSignal,     \* exec: extra?.signal: "none" | "idle" | "aborted"
  ePc,         \* exec: "idle" | "awaiting" | "done"
  eResult,     \* exec: what the core returned or threw (Ok / ToolError)
  eReply,      \* exec: what the tool-call handler returned to the caller
  spawns,      \* exec: number of spawn() calls made
  child,       \* exec: "none" | "pid" (spawned) | "nopid" (spawn failed, error pending)
  proc,        \* exec: the child process: "none" | "running" | "exited"
  exitInfo,    \* exec: [code, signal] the process ended with
  killSent,    \* exec: a SIGKILL reached the running process
  timerArmed,  \* exec: timeoutId is pending
  timedOut,    \* exec: the flag of runExecTool
  listener,    \* exec: abortHandler is attached to the signal
  killLog,     \* exec: the kill calls made, in order
  stdoutC,     \* exec: stdoutCollector
  stderrC,     \* exec: stderrCollector
  dataEvents,  \* exec: 'data' events delivered so far
  childStdin,  \* exec: what was written to child.stdin, and whether it was ended
  eHist        \* exec: history: what happened while the call was awaiting close

parseVars == <<eRaw, eSignal, ePc, eResult>>

runVars == <<eReply, spawns, child, proc, exitInfo, killSent, timerArmed, timedOut,
             listener, killLog, stdoutC, stderrC, dataEvents, childStdin, eHist>>

execVars == <<parseVars, runVars>>

VARIABLES
  fRaw,        \* fetch: request.params.arguments as received
  fSignal,     \* fetch: extra?.signal: "none" | "idle" | "aborted"
  fPc,         \* fetch: "idle" | "lookup" | "fetching" | "hop" | "reading" | "done"
  fI,          \* fetch: the loop counter i
  fCurrent,    \* fetch: current, the target of this iteration
  fAllowed,    \* fetch: allowedUrl
  fRedirects,  \* fetch: redirects, the history
  fTimer,      \* fetch: the per-request timeoutId is pending
  fListener,   \* fetch: onAbort is attached to the signal
  fDnsLog,     \* fetch: the hostnames handed to lookup, in order
  fRequests,   \* fetch: the URLs handed to fetchImpl, in order, with the iteration
  fAccepted,   \* fetch: history: the URLs assertUrlAllowed returned, with the iteration
  fAddrs,      \* fetch: addrs as the lookup just gave it, until the next event
  fResp,       \* fetch: response (status, Location header, whether it has a body)
  fBody,       \* fetch: the state of readBodyText
  fResult,     \* fetch: what the core returned or threw
  fReply       \* fetch: what the tool-call handler returned to the caller

fetchVars == <<fRaw, fSignal, fPc, fI, fCurrent, fAllowed, fRedirects, fTimer, fListener,
               fDnsLog, fRequests, fAccepted, fAddrs, fResp, fBody, fResult, fReply>>

vars == <<execVars, fetchVars>>

-----------------------------------------------------------------------------
(* JavaScript values *)

Undef == [t |-> "undefined"]

Null == [t |-> "null"]

Num(n) == [t |-> "number", v |-> n, integer |-> TRUE]

\* a number with a fractional part, n + 1/2
Frac(n) == [t |-> "number", v |-> n, integer |-> FALSE]

Str(s) == [t |-> "string", s |-> s, fill |-> 0]

LongStr(s, n) == [t |-> "string", s |-> s, fill |-> n]

Arr(items) == [t |-> "array", items |-> items, pad |-> 0]

LongArr(items, n) == [t |-> "array", items |-> items, pad |-> n]

FillChar == "x"

FillerArg == Str(<<FillChar>>)

StrLen(a) == Len(a.s) + a.fill

CharAt(a, i) == IF i <= Len(a.s) THEN a.s[i] ELSE FillChar

ArrLen(a) == Len(a.items) + a.pad

ArgAt(a, i) == IF i <= Len(a.items) THEN a.items[i] ELSE FillerArg

\* String.prototype.startsWith
startsWith(a, prefix) ==
  /\ Len(prefix) <= StrLen(a)
  /\ \A i \in 1..Len(prefix) : CharAt(a, i) = prefix[i]

\* a === target, for strings
strictEquals(a, target) == StrLen(a) = Len(target) /\ startsWith(a, target)

\* String.prototype.includes('\u0000'); the filler character is not NUL
includesNul(a) == \E i \in 1..Len(a.s) : a.s[i] = "NUL"

-----------------------------------------------------------------------------
(* exec-server/core.mjs: constants *)

MAX_TIMEOUT_MS == 120000

DEFAULT_TIMEOUT_MS == 60000

DEFAULT_MAX_OUTPUT_BYTES == 200000

MAX_MAX_OUTPUT_BYTES == 1000000

MIN_MAX_OUTPUT_BYTES == 1024

MAX_ARGS == 64

MAX_ARG_LENGTH == 8192

MAX_STDIN_BYTES == 200000

c_git == <<"g", "i", "t">>

c_npm == <<"n", "p", "m">>

c_node == <<"n", "o", "d", "e">>

c_bash == <<"b", "a", "s", "h">>

ALLOWED_COMMANDS == {c_git, c_npm, c_node}

\* new ToolError(code, message, details); the message is not modelled
ToolError(code, details) == [ok |-> FALSE, code |-> code, details |-> details]

Ok(value) == [ok |-> TRUE, value |-> value]

isPlainObject(value) == value.t = "object"

\* parseBoundedInt without the upper bound
parseBoundedInt_noMax(value, field, min, max, defaultValue) ==
  IF value = Undef THEN Ok(defaultValue)
  ELSE IF value.t # "number" \/ ~value.integer
    THEN ToolError("INVALID_INPUT", [field |-> field])
  ELSE IF value.v < min
    THEN ToolError("INVALID_INPUT", [field |-> field, min |-> min, max |-> max])
  ELSE Ok(value.v)

\* parseBoundedInt(value, {field, min, max, defaultValue})
parseBoundedInt(value, field, min, max, defaultValue) ==
  IF value = Undef THEN Ok(defaultValue)
  ELSE IF value.t # "number" \/ ~value.integer
    THEN ToolError("INVALID_INPUT", [field |-> field])
  ELSE IF value.v < min \/ value.v > max
    THEN ToolError("INVALID_INPUT", [field |-> field, min |-> min, max |-> max])
  ELSE Ok(value.v)

\* the for-loop of parseArgs, from element i on
RECURSIVE parseArgsFrom(_, _)
parseArgsFrom(value, i) ==
  IF i > ArrLen(value) THEN Ok(value)
  ELSE IF StrLen(ArgAt(value, i)) > MAX_ARG_LENGTH
    THEN ToolError("INVALID_INPUT", [maxArgLength |-> MAX_ARG_LENGTH])
  ELSE IF includesNul(ArgAt(value, i))
    THEN ToolError("INVALID_INPUT", Undef)
  ELSE parseArgsFrom(value, i + 1)

parseArgs(value) ==
  IF value = Undef THEN Ok(Arr(<<>>))
  ELSE IF value.t # "array"
          \/ \E i \in 1..Len(value.items) : value.items[i].t # "string"
    THEN ToolError("INVALID_INPUT", Undef)
  ELSE IF ArrLen(value) > MAX_ARGS
    THEN ToolError("INVALID_INPUT", [maxArgs |-> MAX_ARGS])
  ELSE parseArgsFrom(value, 1)

f_C == <<"-", "C">>

f_gitdir == <<"-", "-", "g", "i", "t", "-", "d", "i", "r">>

f_worktree == <<"-", "-", "w", "o", "r", "k", "-", "t", "r", "e", "e">>

f_prefix == <<"-", "-", "p", "r", "e", "f", "i", "x">>

f_global == <<"-", "-", "g", "l", "o", "b", "a", "l">>

f_g == <<"-", "g">>

f_location == <<"-", "-", "l", "o", "c", "a", "t", "i", "o", "n">>

w_global == <<"g", "l", "o", "b", "a", "l">>

deny(arg, reason) ==
  [ok |-> FALSE, code |-> "DISALLOWED_ARGUMENT", details |-> [reason |-> reason],
   arg |-> arg]

\* the body of the git loop for one argument: the denial, or Ok
gitArgCheck(a) ==
  IF strictEquals(a, f_C) \/ (startsWith(a, f_C) /\ StrLen(a) > 2)
    THEN deny(a, "cwd override")
  ELSE IF strictEquals(a, f_gitdir) \/ startsWith(a, f_gitdir \o <<"=">>)
    THEN deny(a, "cwd override")
  ELSE IF strictEquals(a, f_worktree) \/ startsWith(a, f_worktree \o <<"=">>)
    THEN deny(a, "cwd override")
  ELSE Ok(a)

\* npmArgCheck without the two-token form "--location global"
npmArgCheck_oneToken(args, i) ==
  LET a == ArgAt(args, i) IN
  IF strictEquals(a, f_prefix) \/ startsWith(a, f_prefix \o <<"=">>)
    THEN deny(a, "cwd override")
  ELSE IF strictEquals(a, f_global) \/ strictEquals(a, f_g)
          \/ startsWith(a, f_location \o <<"=">> \o w_global)
    THEN deny(a, "global location")
  ELSE Ok(a)

\* the body of the npm loop for args[i]; args[i + 1] is undefined past the end
npmArgCheck(args, i) ==
  LET a == ArgAt(args, i) IN
  IF strictEquals(a, f_prefix) \/ startsWith(a, f_prefix \o <<"=">>)
    THEN deny(a, "cwd override")
  ELSE IF strictEquals(a, f_global) \/ strictEquals(a, f_g)
          \/ startsWith(a, f_location \o <<"=">> \o w_global)
    THEN deny(a, "global location")
  ELSE IF strictEquals(a, f_location) /\ i + 1 <= ArrLen(args)
          /\ strictEquals(ArgAt(args, i + 1), w_global)
    THEN deny(Str(f_location \o <<" ">> \o w_global), "global location")
  ELSE Ok(a)

RECURSIVE argLoop(_, _, _)
argLoop(command, args, i) ==
  IF i > ArrLen(args) THEN Ok(args)
  ELSE LET r == IF command = c_git THEN gitArgCheck(ArgAt(args, i))
                ELSE npmArgCheck(args, i)
       IN IF r.ok THEN argLoop(command, args, i + 1) ELSE r

validateDisallowedCwdArgs(command, args) ==
  IF command = c_git \/ command = c_npm THEN argLoop(command, args, 1)
  ELSE Ok(args)

\* parseExecToolInput after args were parsed and the policy passed
parseExecLimits(raw, command, args) ==
  LET timeoutMs == parseBoundedInt(raw.timeoutMs, "timeoutMs", 1, MAX_TIMEOUT_MS,
                                   DEFAULT_TIMEOUT_MS)
      maxOutputBytes == parseBoundedInt(raw.maxOutputBytes, "maxOutputBytes",
                                        MIN_MAX_OUTPUT_BYTES, MAX_MAX_OUTPUT_BYTES,
                                        DEFAULT_MAX_OUTPUT_BYTES)
      stdin == raw.stdin
  IN IF ~timeoutMs.ok THEN timeoutMs
     ELSE IF ~maxOutputBytes.ok THEN maxOutputBytes
     ELSE IF stdin # Undef /\ stdin.t # "string"
       THEN ToolError("INVALID_INPUT", Undef)
     ELSE IF stdin # Undef /\ stdin.byteLength > 0
             /\ stdin.byteLength > MAX_STDIN_BYTES
       THEN ToolError("INVALID_INPUT", [maxStdinBytes |-> MAX_STDIN_BYTES])
     ELSE Ok([command |-> command, args |-> args, stdin |-> stdin,
              timeoutMs |-> timeoutMs.value,
              maxOutputBytes |-> maxOutputBytes.value])

\* parseExecToolInput that accepts any string as the command
parseExecToolInput_anyString(raw) ==
  IF ~isPlainObject(raw) THEN ToolError("INVALID_INPUT", Undef)
  ELSE IF raw.command.t # "string"
    THEN ToolError("COMMAND_NOT_ALLOWED", [allowed |-> ALLOWED_COMMANDS])
  ELSE LET command == raw.command.s
           args == parseArgs(raw.args)
       IN IF ~args.ok THEN args
          ELSE LET policy == validateDisallowedCwdArgs(command, args.value)
               IN IF ~policy.ok THEN policy
                  ELSE parseExecLimits(raw, command, args.value)

parseExecToolInput(raw) ==
  IF ~isPlainObject(raw) THEN ToolError("INVALID_INPUT", Undef)
  ELSE IF raw.command.t # "string"
          \/ ~\E c \in ALLOWED_COMMANDS : strictEquals(raw.command, c)
    THEN ToolError("COMMAND_NOT_ALLOWED", [allowed |-> ALLOWED_COMMANDS])
  ELSE LET command == raw.command.s
           args == parseArgs(raw.args)
       IN IF ~args.ok THEN args
          ELSE LET policy == validateDisallowedCwdArgs(command, args.value)
               IN IF ~policy.ok THEN policy
                  ELSE parseExecLimits(raw, command, args.value)

-----------------------------------------------------------------------------
(* Requests the parser is run on *)

StdinStr(n) == [t |-> "string", byteLength |-> n]

ObjectRaw(command, args, stdin, timeoutMs, maxOutputBytes) ==
  [t |-> "object", command |-> command, args |-> args, stdin |-> stdin,
   timeoutMs |-> timeoutMs, maxOutputBytes |-> maxOutputBytes]

MaxArgs == 3

GitFlags ==
  {f_C, f_C \o <<"/">>, <<"-", "c">>, f_gitdir, f_gitdir \o <<"=", "/">>,
   f_gitdir \o <<"x">>, f_worktree, f_worktree \o <<"=", "/">>}

NpmFlags ==
  {f_prefix, f_prefix \o <<"=", "/">>, f_prefix \o <<"x">>, f_g, f_g \o <<"x">>,
   f_global, f_location, f_location \o <<"=">> \o w_global,
   f_location \o <<"=", "u">>, w_global}

ArgPool == {Str(s) : s \in GitFlags \cup NpmFlags \cup {<<"s", "t">>}}

WidePool == {Str(s) : s \in {f_C, f_prefix, f_location, w_global, <<"s", "t">>}}

TimeoutValues == {Undef, Num(30000), Num(0)}

MaxOutputValues == {Undef, Num(1024), Num(1023)}

StdinValues == {Undef, StdinStr(2), Num(7)}

\* arrays at the limits of parseArgs
EdgeArgs ==
  {Undef, Str(<<"s", "t">>), Arr(<<Num(1)>>), Arr(<<Str(f_C), Num(1)>>),
   LongArr(<<Str(f_C)>>, MAX_ARGS - 1), LongArr(<<Str(f_C)>>, MAX_ARGS),
   LongArr(<<Str(f_location)>>, 2),
   Arr(<<LongStr(f_C, MAX_ARG_LENGTH - 2)>>), Arr(<<LongStr(f_C, MAX_ARG_LENGTH - 1)>>),
   Arr(<<Str(f_g), LongStr(f_prefix \o <<"=">>, MAX_ARG_LENGTH)>>),
   Arr(<<Str(<<"NUL">>), Str(f_C)>>), Arr(<<Str(f_g \o <<"NUL">>)>>)}

CommandValues ==
  {Str(c) : c \in ALLOWED_COMMANDS} \cup {Str(c_bash), Str(<<>>), Undef, Num(1)}

\* every argument list over the pool with default limits; short lists with every
\* combination of limits; every command value with the edge arrays; non-objects
IsParseInput(raw) ==
  \/ \E c \in ALLOWED_COMMANDS, k \in 0..MaxArgs : \E a \in [1..k -> ArgPool] :
        raw = ObjectRaw(Str(c), Arr(a), Undef, Undef, Undef)
  \/ \E c \in ALLOWED_COMMANDS, k \in 0..MaxArgs : \E a \in [1..k -> WidePool] :
        \E s \in StdinValues, t \in TimeoutValues, m \in MaxOutputValues :
          raw = ObjectRaw(Str(c), Arr(a), s, t, m)
  \/ \E c \in CommandValues, a \in EdgeArgs, t \in TimeoutValues :
        raw = ObjectRaw(c, a, Undef, t, Undef)
  \/ raw \in {Null, Arr(<<>>), Str(c_git)}

NoResult == [t |-> "pending"]

NoExit == [code |-> Null, signal |-> "none"]

\* createCollector(maxBytes): chunks, bytes, truncated
createCollector == [chunks |-> <<>>, bytes |-> 0, truncated |-> FALSE]

NoStdin == [written |-> Undef, ended |-> FALSE]

\* when the timer callback and the abort event ran ("no" | "awaiting" | "done"),
\* whether the close event was observed, and the 'data' events delivered so
\* far: the stream and the length of the chunk of each
NoHist == [timerFired |-> "no", aborted |-> "no", closed |-> FALSE, delivered |-> <<>>]

RunIdle ==
  /\ eReply = NoResult
  /\ spawns = 0
  /\ child = "none"
  /\ proc = "none"
  /\ exitInfo = NoExit
  /\ killSent = FALSE
  /\ timerArmed = FALSE
  /\ timedOut = FALSE
  /\ listener = FALSE
  /\ killLog = <<>>
  /\ stdoutC = createCollector
  /\ stderrC = createCollector
  /\ dataEvents = 0
  /\ childStdin = NoStdin
  /\ eHist = NoHist

\* fetch: no URL yet (current before line 398, allowedUrl before line 400)
NoUrl == [t |-> "undefined"]

\* fetch: addrs before the lookup of this iteration answered
NoAnswer == [t |-> "undefined"]

\* fetch: response before fetchImpl resolved
NoResp == [t |-> "undefined"]

\* fetch: bytesRead, truncated and text at the start of readBodyText; cancelled:
\* reader.cancel() was called; delivered: history, the byteLength of each chunk
\* reader.read() has given
NoBody ==
  [bytesRead |-> 0, truncated |-> FALSE, text |-> <<>>, cancelled |-> FALSE,
   delivered |-> <<>>]

\* the fetch server with no call in progress
FetchIdle ==
  /\ fRaw = Undef
  /\ fSignal = "none"
  /\ fPc = "idle"
  /\ fI = 0
  /\ fCurrent = NoUrl
  /\ fAllowed = NoUrl
  /\ fRedirects = <<>>
  /\ fTimer = FALSE
  /\ fListener = FALSE
  /\ fDnsLog = <<>>
  /\ fRequests = <<>>
  /\ fAccepted = <<>>
  /\ fAddrs = NoAnswer
  /\ fResp = NoResp
  /\ fBody = NoBody
  /\ fResult = NoResult
  /\ fReply = NoResult

ParseInit ==
  /\ FetchIdle
  /\ IsParseInput(eRaw)
  /\ eSignal = "none"
  /\ ePc = "idle"
  /\ eResult = NoResult
  /\ RunIdle

\* one call of parseExecToolInput
ParseExec ==
  /\ UNCHANGED fetchVars
  /\ ePc = "idle"
  /\ ePc' = "parsed"
  /\ eResult' = parseExecToolInput(eRaw)
  /\ UNCHANGED <<eRaw, eSignal, runVars>>

ParseNext == ParseExec

SpecExecParse == ParseInit /\ [][ParseNext]_vars

-----------------------------------------------------------------------------
(* exec-server/core.mjs: the process runner, and the tool-call handler *)

WORKSPACE_CWD == "/workspace"

\* okResult(value); isError is absent, which the caller reads as false
okResult(value) == [isError |-> FALSE, text |-> [ok |-> TRUE, value |-> value]]

errorResult(code, details) ==
  [isError |-> TRUE,
   text |-> [ok |-> FALSE,
             error |-> IF details = Undef THEN [code |-> code]
                       ELSE [code |-> code, details |-> details]]]

\* the try/catch of the handler, for a core that returned or threw a ToolError
handlerReply(r) == IF r.ok THEN okResult(r.value) ELSE errorResult(r.code, r.details)

\* a Buffer: length bytes of the data event with this id, from its first byte
Buffer(id, length) == [isBuffer |-> TRUE, id |-> id, length |-> length]

subarray(chunk, end) == [chunk EXCEPT !.length = end]

\* onData that drops a chunk crossing the cap whole
onData_dropWhole(c, chunk, maxBytes) ==
  IF ~chunk.isBuffer THEN c
  ELSE IF c.bytes >= maxBytes THEN [c EXCEPT !.truncated = TRUE]
  ELSE IF chunk.length > maxBytes - c.bytes THEN [c EXCEPT !.truncated = TRUE]
  ELSE [c EXCEPT !.chunks = Append(@, chunk), !.bytes = @ + chunk.length]

\* collector.onData(chunk), for a collector made by createCollector(maxBytes)
onData(c, chunk, maxBytes) ==
  IF ~chunk.isBuffer THEN c
  ELSE IF c.bytes >= maxBytes THEN [c EXCEPT !.truncated = TRUE]
  ELSE IF chunk.length > maxBytes - c.bytes
    THEN [chunks |-> Append(c.chunks, subarray(chunk, maxBytes - c.bytes)),
          bytes |-> maxBytes, truncated |-> TRUE]
  ELSE [c EXCEPT !.chunks = Append(@, chunk), !.bytes = @ + chunk.length]

\* collector.text(): the stored pieces, concatenated
text(c) == c.chunks

\* one kill call: process.kill(-pid, 'SIGKILL') ("group") or child.kill('SIGKILL')
\* ("child"), whether it returned, who made it, when, and whether the process ran
KillCall(target, ok, by, at, pr) ==
  [target |-> target, ok |-> ok, by |-> by, at |-> at, running |-> pr = "running"]

\* killProcessGroup with child.kill alone, no kill of the group
killProcessGroup_childOnly(ch, pr, by, at, groupOk) ==
  IF ch # "pid" THEN [log |-> <<>>, hit |-> FALSE]
  ELSE [log |-> <<KillCall("child", pr = "running", by, at, pr)>>, hit |-> pr = "running"]

\* killProcessGroup(child): the kill calls it makes and whether a SIGKILL reaches
\* a running process.  groupOk: process.kill(-pid, 'SIGKILL') returned, else it
\* threw and child.kill('SIGKILL') is the fallback.
killProcessGroup(ch, pr, by, at, groupOk) ==
  IF ch # "pid" THEN [log |-> <<>>, hit |-> FALSE]
  ELSE IF groupOk
    THEN [log |-> <<KillCall("group", TRUE, by, at, pr)>>, hit |-> pr = "running"]
  ELSE [log |-> <<KillCall("group", FALSE, by, at, pr),
                  KillCall("child", pr = "running", by, at, pr)>>,
        hit |-> pr = "running"]

\* the object runExecTool builds after close (durationMs is not modelled)
execOutcome(input, exit, flag, out, err) ==
  [cwd |-> WORKSPACE_CWD, command |-> input.command, args |-> input.args,
   exitCode |-> exit.code, signal |-> exit.signal, timedOut |-> flag,
   stdout |-> text(out), stderr |-> text(err),
   stdoutTruncated |-> out.truncated, stderrTruncated |-> err.truncated]

\* classifyExit with the exit code looked at before the timed-out flag
classifyExit_codeFirst(flag, exit, result) ==
  IF exit.code # Num(0) THEN ToolError("NON_ZERO_EXIT", result)
  ELSE IF flag THEN ToolError("TIMEOUT", result)
  ELSE Ok(result)

\* the end of runExecTool: TIMEOUT, then NON_ZERO_EXIT, then the result
classifyExit(flag, exit, result) ==
  IF flag THEN ToolError("TIMEOUT", result)
  ELSE IF exit.code # Num(0) THEN ToolError("NON_ZERO_EXIT", result)
  ELSE Ok(result)

eInput == parseExecToolInput(eRaw).value

\* the 'error' event of a child that could not be spawned is emitted on the next
\* tick, before any timer, abort or stream event
ErrorPending == ePc = "awaiting" /\ child = "nopid"

\* the handler returns what the core returned or threw
Return(r) ==
  /\ ePc' = "done"
  /\ eResult' = r
  /\ eReply' = handlerReply(r)

MaxData == 2

ChunkSizes == {700}

NaturalExits ==
  {[code |-> Num(0), signal |-> "null"], [code |-> Num(1), signal |-> "null"],
   [code |-> Null, signal |-> "SIGSEGV"]}

SpawnOutcomes == {"throws", "pid", "nopid"}

\* runExecTool from its first line to the await of the close promise
runExecToolStart(input, outcome, groupOk) ==
  /\ spawns' = spawns + 1
  /\ IF outcome = "throws"
       THEN /\ Return(ToolError("SPAWN_FAILED", [message |-> "spawn"]))
            /\ UNCHANGED <<child, proc, killSent, timerArmed, timedOut, listener,
                           killLog, childStdin>>
       ELSE /\ child' = outcome
            /\ proc' = IF outcome = "pid" THEN "running" ELSE "none"
            /\ timedOut' = FALSE
            /\ IF eSignal = "aborted"
                 THEN LET k == killProcessGroup(outcome, proc', "call", "idle", groupOk)
                      IN /\ timerArmed' = FALSE
                         /\ killLog' = killLog \o k.log
                         /\ killSent' = k.hit
                         /\ Return(ToolError("ABORTED", Undef))
                         /\ UNCHANGED <<listener, childStdin>>
                 ELSE /\ timerArmed' = TRUE
                      /\ listener' = (eSignal = "idle")
                      /\ childStdin' = [written |-> input.stdin, ended |-> TRUE]
                      /\ ePc' = "awaiting"
                      /\ UNCHANGED <<eResult, eReply, killLog, killSent>>
  /\ UNCHANGED <<exitInfo, stdoutC, stderrC, dataEvents, eHist>>

\* the handler with the spawn made before the request is validated
ExecCallTool_spawnFirst ==
  /\ UNCHANGED fetchVars
  /\ ePc = "idle"
  /\ IF ~parseExecToolInput(eRaw).ok
       THEN /\ Return(parseExecToolInput(eRaw))
            /\ spawns' = spawns + 1
            /\ UNCHANGED <<child, proc, exitInfo, killSent, timerArmed, timedOut,
                           listener, killLog, stdoutC, stderrC, dataEvents, childStdin,
                           eHist>>
       ELSE \E outcome \in SpawnOutcomes, groupOk \in BOOLEAN :
              runExecToolStart(eInput, outcome, groupOk)
  /\ UNCHANGED <<eRaw, eSignal>>

\* the CallToolRequestSchema handler up to its first await
ExecCallTool ==
  /\ UNCHANGED fetchVars
  /\ ePc = "idle"
  /\ IF ~parseExecToolInput(eRaw).ok
       THEN /\ Return(parseExecToolInput(eRaw))
            /\ UNCHANGED <<spawns, child, proc, exitInfo, killSent, timerArmed, timedOut,
                           listener, killLog, stdoutC, stderrC, dataEvents, childStdin,
                           eHist>>
       ELSE \E outcome \in SpawnOutcomes, groupOk \in BOOLEAN :
              runExecToolStart(eInput, outcome, groupOk)
  /\ UNCHANGED <<eRaw, eSignal>>

\* the setTimeout callback without timedOut = true
TimerFire_noFlag ==
  /\ UNCHANGED fetchVars
  /\ timerArmed
  /\ ~ErrorPending
  /\ \E groupOk \in BOOLEAN :
       LET k == killProcessGroup(child, proc, "timer", ePc, groupOk)
       IN /\ killLog' = killLog \o k.log
          /\ killSent' = (killSent \/ k.hit)
  /\ timerArmed' = FALSE
  /\ eHist' = [eHist EXCEPT !.timerFired = ePc]
  /\ UNCHANGED <<parseVars, eReply, spawns, child, proc, exitInfo, listener, stdoutC,
                 stderrC, dataEvents, childStdin, timedOut>>

\* the setTimeout callback
TimerFire ==
  /\ UNCHANGED fetchVars
  /\ timerArmed
  /\ ~ErrorPending
  /\ \E groupOk \in BOOLEAN :
       LET k == killProcessGroup(child, proc, "timer", ePc, groupOk)
       IN /\ killLog' = killLog \o k.log
          /\ killSent' = (killSent \/ k.hit)
  /\ timedOut' = TRUE
  /\ timerArmed' = FALSE
  /\ eHist' = [eHist EXCEPT !.timerFired = ePc]
  /\ UNCHANGED <<parseVars, eReply, spawns, child, proc, exitInfo, listener, stdoutC,
                 stderrC, dataEvents, childStdin>>

\* the caller aborts the signal; abortHandler runs when it is attached
SignalAbort ==
  /\ UNCHANGED fetchVars
  /\ eSignal = "idle"
  /\ ePc \in {"awaiting", "done"}
  /\ ~ErrorPending
  /\ eSignal' = "aborted"
  /\ IF listener
       THEN \E groupOk \in BOOLEAN :
              LET k == killProcessGroup(child, proc, "abort", ePc, groupOk)
              IN /\ killLog' = killLog \o k.log
                 /\ killSent' = (killSent \/ k.hit)
       ELSE UNCHANGED <<killLog, killSent>>
  /\ listener' = FALSE
  /\ eHist' = [eHist EXCEPT !.aborted = ePc]
  /\ UNCHANGED <<eRaw, ePc, eResult, eReply, spawns, child, proc, exitInfo, timerArmed,
                 timedOut, stdoutC, stderrC, dataEvents, childStdin>>

\* the process ends: by the SIGKILL that reached it, or on its own
ProcExit ==
  /\ UNCHANGED fetchVars
  /\ proc = "running"
  /\ proc' = "exited"
  /\ IF killSent THEN exitInfo' = [code |-> Null, signal |-> "SIGKILL"]
     ELSE exitInfo' \in NaturalExits
  /\ UNCHANGED <<parseVars, eReply, spawns, child, killSent, timerArmed, timedOut,
                 listener, killLog, stdoutC, stderrC, dataEvents, childStdin, eHist>>

\* child.stdout.on('data', ...), for the chunk of one of these sizes, while
\* fewer than limit 'data' events were delivered
StdoutDataOf(sizes, limit) ==
  /\ UNCHANGED fetchVars
  /\ ePc = "awaiting"
  /\ child = "pid"
  /\ dataEvents < limit
  /\ \E n \in sizes :
       /\ stdoutC' = onData(stdoutC, Buffer(dataEvents + 1, n), eInput.maxOutputBytes)
       /\ eHist' = [eHist EXCEPT
                      !.delivered = Append(@, [stream |-> "stdout", length |-> n])]
  /\ dataEvents' = dataEvents + 1
  /\ UNCHANGED <<parseVars, eReply, spawns, child, proc, exitInfo, killSent, timerArmed,
                 timedOut, listener, killLog, stderrC, childStdin>>

StdoutData == StdoutDataOf(ChunkSizes, MaxData)

\* child.stderr.on('data', ...), likewise
StderrDataOf(sizes, limit) ==
  /\ UNCHANGED fetchVars
  /\ ePc = "awaiting"
  /\ child = "pid"
  /\ dataEvents < limit
  /\ \E n \in sizes :
       /\ stderrC' = onData(stderrC, Buffer(dataEvents + 1, n), eInput.maxOutputBytes)
       /\ eHist' = [eHist EXCEPT
                      !.delivered = Append(@, [stream |-> "stderr", length |-> n])]
  /\ dataEvents' = dataEvents + 1
  /\ UNCHANGED <<parseVars, eReply, spawns, child, proc, exitInfo, killSent, timerArmed,
                 timedOut, listener, killLog, stdoutC, childStdin>>

StderrData == StderrDataOf(ChunkSizes, MaxData)

\* child.once('error', ...): the promise rejects and runExecTool throws EXEC_FAILED
ChildError ==
  /\ UNCHANGED fetchVars
  /\ ErrorPending
  /\ Return(ToolError("EXEC_FAILED", [message |-> "spawn"]))
  /\ UNCHANGED <<eRaw, eSignal, spawns, child, proc, exitInfo, killSent, timerArmed,
                 timedOut, listener, killLog, stdoutC, stderrC, dataEvents, childStdin,
                 eHist>>

\* child.once('close', ...): the promise resolves and runExecTool runs to its end
ChildClose ==
  /\ UNCHANGED fetchVars
  /\ ePc = "awaiting"
  /\ proc = "exited"
  /\ timerArmed' = FALSE
  /\ listener' = FALSE
  /\ Return(classifyExit(timedOut, exitInfo,
                         execOutcome(eInput, exitInfo, timedOut, stdoutC, stderrC)))
  /\ eHist' = [eHist EXCEPT !.closed = TRUE]
  /\ UNCHANGED <<eRaw, eSignal, spawns, child, proc, exitInfo, killSent, timedOut,
                 killLog, stdoutC, stderrC, dataEvents, childStdin>>

\* ---- the collectors, on chunks around the cap ----

MaxEdgeData == 3

\* chunks that stay below a cap of 1024 or 2048 bytes, reach it, and cross it
EdgeChunkSizes == {324, 700, 1024, 1025}

\* node -v with maxOutputBytes 1024 or 2048
IsCollectorInput(raw) ==
  \E m \in {MIN_MAX_OUTPUT_BYTES, 2 * MIN_MAX_OUTPUT_BYTES} :
    raw = ObjectRaw(Str(c_node), Arr(<<Str(<<"-", "v">>)>>), Undef, Undef, Num(m))

CollectorsInit ==
  /\ FetchIdle
  /\ IsCollectorInput(eRaw)
  /\ eSignal = "none"
  /\ ePc = "idle"
  /\ eResult = NoResult
  /\ RunIdle

CollectorsNext ==
  \/ ExecCallTool
  \/ StdoutDataOf(EdgeChunkSizes, MaxEdgeData)
  \/ StderrDataOf(EdgeChunkSizes, MaxEdgeData)
  \/ TimerFire
  \/ ProcExit
  \/ ChildError
  \/ ChildClose

SpecCollectors == CollectorsInit /\ [][CollectorsNext]_vars

\* the requests the exec handler is run on
IsExecInput(raw) ==
  \/ \E c \in {Str(c_bash), Str(<<>>), Undef, Num(1)}, a \in EdgeArgs :
       \E s \in StdinValues, t \in TimeoutValues, m \in MaxOutputValues :
         raw = ObjectRaw(c, a, s, t, m)
  \/ \E c \in ALLOWED_COMMANDS, k \in 0..1 : \E a \in [1..k -> WidePool] :
       \E s \in StdinValues, t \in TimeoutValues :
         raw = ObjectRaw(Str(c), Arr(a), s, t, Num(1024))
  \/ raw \in {Null, Arr(<<>>), Str(c_git)}

ExecInit ==
  /\ FetchIdle
  /\ IsExecInput(eRaw)
  /\ eSignal \in {"none", "idle", "aborted"}
  /\ ePc = "idle"
  /\ eResult = NoResult
  /\ RunIdle

ExecNext ==
  \/ ExecCallTool
  \/ TimerFire
  \/ SignalAbort
  \/ ProcExit
  \/ StdoutData
  \/ StderrData
  \/ ChildError
  \/ ChildClose

SpecExec == ExecInit /\ [][ExecNext]_vars

\* the requests of the liveness runs: node -v with and without stdin, and bash
IsLiveInput(raw) ==
  \/ \E s \in {Undef, StdinStr(2)} :
       raw = ObjectRaw(Str(c_node), Arr(<<Str(<<"-", "v">>)>>), s, Num(1), Num(1024))
  \/ raw = ObjectRaw(Str(c_bash), Undef, Undef, Undef, Undef)

ExecLiveInit ==
  /\ FetchIdle
  /\ IsLiveInput(eRaw)
  /\ eSignal \in {"none", "idle", "aborted"}
  /\ ePc = "idle"
  /\ eResult = NoResult
  /\ RunIdle

\* a process that a SIGKILL reached ends, and Node emits 'close' for a process
\* that ended
SpecExecLive ==
  /\ ExecLiveInit
  /\ [][ExecNext]_vars
  /\ WF_vars(ProcExit /\ killSent)
  /\ WF_vars(ChildClose)

-----------------------------------------------------------------------------
(* The fetch server: src/unnamed/part_002 (the core) and part_003 (the handler).
   Host names and addresses are sequences of characters. *)

FETCH_DEFAULT_TIMEOUT_MS == 15000

FETCH_MAX_TIMEOUT_MS == 30000

DEFAULT_MAX_BYTES == 500000

MAX_MAX_BYTES == 1000000

MIN_MAX_BYTES == 1024

DEFAULT_MAX_REDIRECTS == 3

MAX_MAX_REDIRECTS == 5

Digits == <<"0", "1", "2", "3", "4", "5", "6", "7", "8", "9">>

HexDigits == Digits \o <<"a", "b", "c", "d", "e", "f">>

UpperCase ==
  <<"A", "B", "C", "D", "E", "F", "G", "H", "I", "J", "K", "L", "M",
    "N", "O", "P", "Q", "R", "S", "T", "U", "V", "W", "X", "Y", "Z">>

LowerCase ==
  <<"a", "b", "c", "d", "e", "f", "g", "h", "i", "j", "k", "l", "m",
    "n", "o", "p", "q", "r", "s", "t", "u", "v", "w", "x", "y", "z">>

\* /[0-9]/
isDigit(c) == \E d \in 1..Len(Digits) : Digits[d] = c

\* /[0-9a-f]/
isHexDigit(c) == \E d \in 1..Len(HexDigits) : HexDigits[d] = c

toLowerCaseChar(c) ==
  IF \E i \in 1..Len(UpperCase) : UpperCase[i] = c
    THEN LowerCase[CHOOSE i \in 1..Len(UpperCase) : UpperCase[i] = c]
    ELSE c

\* String.prototype.toLowerCase
toLowerCase(s) == [i \in 1..Len(s) |-> toLowerCaseChar(s[i])]

\* String.prototype.lastIndexOf for one character, counting positions from 1:
\* 0 where JavaScript gives -1
lastIndexOf(s, c) ==
  IF \E i \in 1..Len(s) : s[i] = c
    THEN CHOOSE i \in 1..Len(s) : s[i] = c /\ \A j \in (i + 1)..Len(s) : s[j] # c
    ELSE 0

\* String.prototype.endsWith
endsWith(s, suffix) ==
  /\ Len(s) >= Len(suffix)
  /\ SubSeq(s, Len(s) - Len(suffix) + 1, Len(s)) = suffix

\* String.prototype.includes
includes(s, sep) ==
  \E i \in 1..(Len(s) - Len(sep) + 1) : SubSeq(s, i, i + Len(sep) - 1) = sep

\* String.prototype.split with a non-empty separator
RECURSIVE split(_, _)
split(s, sep) ==
  IF includes(s, sep)
    THEN LET i == CHOOSE k \in 1..(Len(s) - Len(sep) + 1) :
                    /\ SubSeq(s, k, k + Len(sep) - 1) = sep
                    /\ \A j \in 1..(k - 1) : SubSeq(s, j, j + Len(sep) - 1) # sep
         IN <<SubSeq(s, 1, i - 1)>> \o split(SubSeq(s, i + Len(sep), Len(s)), sep)
    ELSE <<s>>

\* Number(p) for a string of decimal digits
RECURSIVE Number(_)
Number(p) ==
  IF p = <<>> THEN 0
  ELSE 10 * Number(SubSeq(p, 1, Len(p) - 1))
       + (CHOOSE d \in 1..Len(Digits) : Digits[d] = p[Len(p)]) - 1

\* parseInt(h, 16) for a string of hexadecimal digits
RECURSIVE parseInt16(_)
parseInt16(h) ==
  IF h = <<>> THEN 0
  ELSE 16 * parseInt16(SubSeq(h, 1, Len(h) - 1))
       + (CHOOSE d \in 1..Len(HexDigits) : HexDigits[d] = h[Len(h)]) - 1

\* `${n}` for a number n >= 0
RECURSIVE numberToString(_)
numberToString(n) ==
  IF n < 10 THEN <<Digits[n + 1]>>
  ELSE numberToString(n \div 10) \o <<Digits[(n % 10) + 1]>>

\* /^[0-9]{1,3}$/.test(p)
isDecimalPart(p) == Len(p) \in 1..3 /\ \A i \in 1..Len(p) : isDigit(p[i])

\* /^[0-9a-f]{1,4}$/.test(h)
isHextet(h) == Len(h) \in 1..4 /\ \A i \in 1..Len(h) : isHexDigit(h[i])

\* A 32-bit word is written as its four bytes, the most significant first;
\* (value << 8) | n, for n in 0..255, shifts the bytes and puts n last.
RECURSIVE ipv4Fold(_, _, _)
ipv4Fold(parts, k, value) ==
  IF k > Len(parts) THEN value
  ELSE IF ~isDecimalPart(parts[k]) THEN <<>>
  ELSE IF Number(parts[k]) < 0 \/ Number(parts[k]) > 255 THEN <<>>
  ELSE ipv4Fold(parts, k + 1, <<value[2], value[3], value[4], Number(parts[k])>>)

\* ipv4ToInt(ip): the four bytes of the result, or <<>> for null
ipv4ToIntParts(parts) ==
  IF Len(parts) # 4 THEN <<>> ELSE ipv4Fold(parts, 1, <<0, 0, 0, 0>>)

ipv4ToInt(ip) == ipv4ToIntParts(split(ip, <<".">>))

\* the number of the maskBits leading bits that fall in unit k of a word made
\* of units of width bits
bitsInUnit(maskBits, k, width) ==
  IF maskBits >= width * k THEN width
  ELSE IF maskBits <= width * (k - 1) THEN 0
  ELSE maskBits - width * (k - 1)

\* x with all but its nb leading bits cleared, for x of width bits
leadingBits(x, nb, width) == x - (x % (2 ^ (width - nb)))

\* inCidr(base, maskBits) of isPrivateIp, for the address v
inCidr(v, base, maskBits) ==
  \A k \in 1..4 :
    leadingBits(v[k], bitsInUnit(maskBits, k, 8), 8)
      = leadingBits(base[k], bitsInUnit(maskBits, k, 8), 8)

\* base(a, b, c, d) of isPrivateIp
base(a, b, c, d) == <<a, b, c, d>>

\* the return expression with 172.16.0.0/16 in the place of 172.16.0.0/12
ipv4Private_narrow172(v) ==
  \/ inCidr(v, base(0, 0, 0, 0), 8)
  \/ inCidr(v, base(10, 0, 0, 0), 8)
  \/ inCidr(v, base(100, 64, 0, 0), 10)
  \/ inCidr(v, base(127, 0, 0, 0), 8)
  \/ inCidr(v, base(169, 254, 0, 0), 16)
  \/ inCidr(v, base(172, 16, 0, 0), 16)
  \/ inCidr(v, base(192, 168, 0, 0), 16)
  \/ inCidr(v, base(192, 0, 0, 0), 24)
  \/ inCidr(v, base(192, 0, 2, 0), 24)
  \/ inCidr(v, base(198, 18, 0, 0), 15)
  \/ inCidr(v, base(198, 51, 100, 0), 24)
  \/ inCidr(v, base(203, 0, 113, 0), 24)
  \/ inCidr(v, base(224, 0, 0, 0), 4)
  \/ inCidr(v, base(240, 0, 0, 0), 4)

\* the return expression of the IPv4 branch of isPrivateIp
ipv4Private(v) ==
  \/ inCidr(v, base(0, 0, 0, 0), 8)
  \/ inCidr(v, base(10, 0, 0, 0), 8)
  \/ inCidr(v, base(100, 64, 0, 0), 10)
  \/ inCidr(v, base(127, 0, 0, 0), 8)
  \/ inCidr(v, base(169, 254, 0, 0), 16)
  \/ inCidr(v, base(172, 16, 0, 0), 12)
  \/ inCidr(v, base(192, 168, 0, 0), 16)
  \/ inCidr(v, base(192, 0, 0, 0), 24)
  \/ inCidr(v, base(192, 0, 2, 0), 24)
  \/ inCidr(v, base(198, 18, 0, 0), 15)
  \/ inCidr(v, base(198, 51, 100, 0), 24)
  \/ inCidr(v, base(203, 0, 113, 0), 24)
  \/ inCidr(v, base(224, 0, 0, 0), 4)
  \/ inCidr(v, base(240, 0, 0, 0), 4)

nonEmptyString(s) == Len(s) > 0

\* headRaw ? headRaw.split(':').filter((s) => s.length > 0) : []
hextetStrings(raw) ==
  IF Len(raw) > 0 THEN SelectSeq(split(raw, <<":">>), nonEmptyString) ELSE <<>>

\* ipv6ToBigInt(ip). A 128-bit value is written as its eight 16-bit groups, the
\* most significant first. The local variables of the function are passed
\* from one part to the next.

INVALID_IPV6 == ToolError("INVALID_INPUT", Undef)

\* lines 189-202: hextets[6] and hextets[7] are assigned in an array that has
\* eight elements
ipv6Embed(hextets, embeddedV4Hextets) ==
  IF embeddedV4Hextets = <<>>
    THEN (IF Len(hextets) # 8 THEN INVALID_IPV6 ELSE Ok(hextets))
    ELSE Ok([k \in 1..8 |-> IF k = 7 THEN embeddedV4Hextets[1]
                            ELSE IF k = 8 THEN embeddedV4Hextets[2]
                            ELSE hextets[k]])

\* lines 178-187
ipv6Hextets(headNums, tailNums, compressed, embeddedV4Hextets) ==
  IF compressed
    THEN IF 8 - (Len(headNums) + Len(tailNums)) < 0 THEN INVALID_IPV6
         ELSE ipv6Embed(headNums
                          \o [k \in 1..(8 - (Len(headNums) + Len(tailNums))) |-> 0]
                          \o tailNums,
                        embeddedV4Hextets)
    ELSE ipv6Embed(headNums \o tailNums, embeddedV4Hextets)

\* lines 161-176
ipv6Groups(head, tail, compressed, embeddedV4Hextets) ==
  IF ~compressed /\ Len(head) + Len(tail) # 8 THEN INVALID_IPV6
  ELSE IF \E k \in 1..Len(head) : ~isHextet(head[k]) THEN INVALID_IPV6
  ELSE IF \E k \in 1..Len(tail) : ~isHextet(tail[k]) THEN INVALID_IPV6
  ELSE ipv6Hextets([k \in 1..Len(head) |-> parseInt16(head[k])],
                   [k \in 1..Len(tail) |-> parseInt16(tail[k])],
                   compressed, embeddedV4Hextets)

\* lines 158-160: [headRaw, tailRaw] = left.split('::')
ipv6Pieces(pieces, compressed, embeddedV4Hextets) ==
  ipv6Groups(hextetStrings(pieces[1]),
             IF Len(pieces) >= 2 THEN hextetStrings(pieces[2]) ELSE <<>>,
             compressed, embeddedV4Hextets)

ipv6Left(left, embeddedV4Hextets) ==
  ipv6Pieces(split(left, <<":", ":">>), includes(left, <<":", ":">>),
             embeddedV4Hextets)

\* lines 147-156; input.slice(0, lastColon) drops the last character when
\* there is no colon
ipv6Embedded(input, lastColon, v4Int) ==
  IF v4Int = <<>> THEN INVALID_IPV6
  ELSE ipv6Left((IF lastColon = 0 THEN SubSeq(input, 1, Len(input) - 1)
                 ELSE SubSeq(input, 1, lastColon - 1)) \o <<":", "0", ":", "0">>,
                <<v4Int[1] * 256 + v4Int[2], v4Int[3] * 256 + v4Int[4]>>)

\* lines 140-156, for the lower-cased input
ipv6Input(input, lastColon) ==
  IF lastIndexOf(input, ".") # 0
    THEN ipv6Embedded(input, lastColon,
                      ipv4ToInt(SubSeq(input, lastColon + 1, Len(input))))
    ELSE ipv6Left(input, <<>>)

ipv6ToBigInt(ip) == ipv6Input(toLowerCase(ip), lastIndexOf(toLowerCase(ip), ":"))

\* ipv6InCidr(addr, prefix, bits)
ipv6InCidr(addr, prefix, bits) ==
  \A k \in 1..8 :
    leadingBits(addr[k], bitsInUnit(bits, k, 16), 16)
      = leadingBits(prefix[k], bitsInUnit(bits, k, 16), 16)

\* 0xfc00_0000_..., 0xfe80_0000_..., 0xff00_0000_..., 0x2001_0db8_0000_...
fc00 == <<64512, 0, 0, 0, 0, 0, 0, 0>>

fe80 == <<65152, 0, 0, 0, 0, 0, 0, 0>>

ff00 == <<65280, 0, 0, 0, 0, 0, 0, 0>>

doc == <<8193, 3512, 0, 0, 0, 0, 0, 0>>

\* the octet pattern of net.isIPv4: no leading zero, at most 255
isOctetText(p) ==
  /\ isDecimalPart(p)
  /\ (Len(p) > 1 => p[1] # "0")
  /\ Number(p) <= 255

\* net.isIPv4(ip)
isIPv4Parts(parts) == Len(parts) = 4 /\ \A k \in 1..4 : isOctetText(parts[k])

isIPv4(ip) == isIPv4Parts(split(ip, <<".">>))

\* the groups of one side of an IPv6 text; the last may be a dotted quad, which
\* stands for two groups
v6Groups(raw) == IF Len(raw) = 0 THEN <<>> ELSE split(raw, <<":">>)

v6GroupCount(groups, lastMayBeV4) ==
  IF lastMayBeV4 /\ Len(groups) > 0 /\ isIPv4(groups[Len(groups)])
    THEN Len(groups) + 1 ELSE Len(groups)

v6GroupsOk(groups, lastMayBeV4) ==
  \A k \in 1..Len(groups) :
    \/ isHextet(toLowerCase(groups[k]))
    \/ lastMayBeV4 /\ k = Len(groups) /\ isIPv4(groups[k])

isIPv6Full(groups) == v6GroupsOk(groups, TRUE) /\ v6GroupCount(groups, TRUE) = 8

isIPv6Compressed(head, tail) ==
  /\ v6GroupsOk(head, Len(tail) = 0)
  /\ v6GroupsOk(tail, TRUE)
  /\ v6GroupCount(head, Len(tail) = 0) + v6GroupCount(tail, TRUE) <= 7

isIPv6Pieces(pieces) ==
  /\ Len(pieces) <= 2
  /\ IF Len(pieces) = 1 THEN isIPv6Full(v6Groups(pieces[1]))
     ELSE isIPv6Compressed(v6Groups(pieces[1]), v6Groups(pieces[2]))

isIPv6Zoned(zoned) ==
  /\ Len(zoned) <= 2
  /\ Len(zoned) = 2 => Len(zoned[2]) > 0
  /\ isIPv6Pieces(split(zoned[1], <<":", ":">>))

\* net.isIPv6(ip): eight groups, or fewer around one "::", with an optional
\* dotted-quad tail and an optional %zone
isIPv6(ip) == isIPv6Zoned(split(ip, <<"%">>))

\* net.isIP(ip)
netIsIP(ip) == IF isIPv4(ip) THEN 4 ELSE IF isIPv6(ip) THEN 6 ELSE 0

\* `${(v4 >>> 24) & 0xff}.${(v4 >>> 16) & 0xff}.${(v4 >>> 8) & 0xff}.${v4 & 0xff}`
\* for the low 32 bits of addr
mappedIpv4Text(addr) ==
  numberToString(addr[7] \div 256) \o <<".">> \o numberToString(addr[7] % 256)
    \o <<".">> \o numberToString(addr[8] \div 256) \o <<".">>
    \o numberToString(addr[8] % 256)

\* isPrivateIp(ip): Ok(TRUE), Ok(FALSE), or the ToolError ipv6ToBigInt threw
RECURSIVE isPrivateIp(_)

\* lines 243-263, for addr
isPrivateAddr6(addr) ==
  IF addr = <<0, 0, 0, 0, 0, 0, 0, 0>> \/ addr = <<0, 0, 0, 0, 0, 0, 0, 1>>
    THEN Ok(TRUE)
  ELSE IF (\A k \in 1..5 : addr[k] = 0) /\ addr[6] = 65535
    THEN isPrivateIp(mappedIpv4Text(addr))
  ELSE Ok(\/ ipv6InCidr(addr, fc00, 7)
          \/ ipv6InCidr(addr, fe80, 10)
          \/ ipv6InCidr(addr, ff00, 8)
          \/ ipv6InCidr(addr, doc, 32))

\* line 241: what ipv6ToBigInt threw goes through isPrivateIp
isPrivateIpv6(parsed) == IF ~parsed.ok THEN parsed ELSE isPrivateAddr6(parsed.value)

\* lines 213-238, for v
isPrivateIpv4(v) == IF v = <<>> THEN Ok(TRUE) ELSE Ok(ipv4Private(v))

isPrivateVersion(ip, version) ==
  IF version = 4 THEN isPrivateIpv4(ipv4ToInt(ip))
  ELSE IF version = 6 THEN isPrivateIpv6(ipv6ToBigInt(ip))
  ELSE Ok(TRUE)

isPrivateIp(ip) == isPrivateVersion(ip, netIsIP(ip))

\* normalizeHostname(hostname): drops one trailing dot, lower-cases
normalizeHostname(hostname) ==
  toLowerCase(IF Len(hostname) > 0 /\ hostname[Len(hostname)] = "."
                THEN SubSeq(hostname, 1, Len(hostname) - 1)
                ELSE hostname)

h_localhost == <<"l", "o", "c", "a", "l", "h", "o", "s", "t">>

s_local == <<".", "l", "o", "c", "a", "l">>

s_internal == <<".", "i", "n", "t", "e", "r", "n", "a", "l">>

\* isBlockedHostname without normalizeHostname
isBlockedHostname_asWritten(hostname) ==
  hostname = h_localhost \/ endsWith(hostname, s_local) \/ endsWith(hostname, s_internal)

\* isBlockedHostname(hostname)
isBlockedHostname(hostname) ==
  LET h == normalizeHostname(hostname)
  IN h = h_localhost \/ endsWith(h, s_local) \/ endsWith(h, s_internal)

\* isPlainObject(value), isPlainObject of the exec server written again
fetchIsPlainObject(value) == value.t = "object"

\* parseBoundedInt(value, {field, min, max, defaultValue}) of the fetch core
fetchParseBoundedInt(value, field, min, max, defaultValue) ==
  IF value = Undef THEN Ok(defaultValue)
  ELSE IF value.t # "number" \/ ~value.integer
    THEN ToolError("INVALID_INPUT", [field |-> field])
  ELSE IF value.v < min \/ value.v > max
    THEN ToolError("INVALID_INPUT", [field |-> field, min |-> min, max |-> max])
  ELSE Ok(value.v)

\* parseFetchToolInput(raw)
parseFetchToolInput(raw) ==
  LET timeoutMs == fetchParseBoundedInt(raw.timeoutMs, "timeoutMs", 1,
                                        FETCH_MAX_TIMEOUT_MS, FETCH_DEFAULT_TIMEOUT_MS)
      maxBytes == fetchParseBoundedInt(raw.maxBytes, "maxBytes", MIN_MAX_BYTES,
                                       MAX_MAX_BYTES, DEFAULT_MAX_BYTES)
      maxRedirects == fetchParseBoundedInt(raw.maxRedirects, "maxRedirects", 0,
                                           MAX_MAX_REDIRECTS, DEFAULT_MAX_REDIRECTS)
  IN IF ~fetchIsPlainObject(raw) THEN ToolError("INVALID_INPUT", Undef)
     ELSE IF raw.url.t # "string" \/ raw.url.length = 0
       THEN ToolError("INVALID_INPUT", Undef)
     ELSE IF ~timeoutMs.ok THEN timeoutMs
     ELSE IF ~maxBytes.ok THEN maxBytes
     ELSE IF ~maxRedirects.ok THEN maxRedirects
     ELSE Ok([url |-> raw.url, timeoutMs |-> timeoutMs.value,
              maxBytes |-> maxBytes.value, maxRedirects |-> maxRedirects.value])

\* What new URL(text) gives for a text: the parts of the URL record the core
\* reads, or no URL when the constructor throws.
Url(protocol, username, password, hostname, pathname) ==
  [valid |-> TRUE, protocol |-> protocol, username |-> username,
   password |-> password, hostname |-> hostname, pathname |-> pathname]

InvalidUrl == [valid |-> FALSE]

\* A string value that is read as a URL: its length, and what new URL gives for
\* it. url.toString() gives the string of a URL record.
UrlString(u) == [t |-> "string", length |-> 1, href |-> u]

EmptyString == [t |-> "string", length |-> 0, href |-> InvalidUrl]

\* lines 306-309: the verdict for a host that is a literal address
literalVerdict(url, private) ==
  IF ~private.ok THEN [kind |-> "throw", error |-> private]
  ELSE IF private.value
    THEN [kind |-> "throw",
          error |-> ToolError("SSRF_BLOCKED", [host |-> url.hostname])]
  ELSE [kind |-> "return", url |-> url]

assertUrlAllowedSync_literalUnchecked(urlString) ==
  LET url == urlString.href
  IN IF ~url.valid THEN [kind |-> "throw", error |-> ToolError("INVALID_URL", Undef)]
     ELSE IF url.protocol # "http:" /\ url.protocol # "https:"
       THEN [kind |-> "throw",
             error |-> ToolError("INVALID_URL", [protocol |-> url.protocol])]
     ELSE IF url.username # "" \/ url.password # ""
       THEN [kind |-> "throw", error |-> ToolError("INVALID_URL", Undef)]
     ELSE IF url.hostname = <<>>
       THEN [kind |-> "throw", error |-> ToolError("INVALID_URL", Undef)]
     ELSE IF isBlockedHostname(url.hostname)
       THEN [kind |-> "throw",
             error |-> ToolError("SSRF_BLOCKED", [hostname |-> url.hostname])]
     ELSE [kind |-> "lookup", url |-> url]

\* The synchronous part of assertUrlAllowed(urlString), lines 281-310: it
\* throws, returns the url, or goes on to the lookup.
assertUrlAllowedSync(urlString) ==
  LET url == urlString.href
  IN IF ~url.valid THEN [kind |-> "throw", error |-> ToolError("INVALID_URL", Undef)]
     ELSE IF url.protocol # "http:" /\ url.protocol # "https:"
       THEN [kind |-> "throw",
             error |-> ToolError("INVALID_URL", [protocol |-> url.protocol])]
     ELSE IF url.username # "" \/ url.password # ""
       THEN [kind |-> "throw", error |-> ToolError("INVALID_URL", Undef)]
     ELSE IF url.hostname = <<>>
       THEN [kind |-> "throw", error |-> ToolError("INVALID_URL", Undef)]
     ELSE IF isBlockedHostname(url.hostname)
       THEN [kind |-> "throw",
             error |-> ToolError("SSRF_BLOCKED", [hostname |-> url.hostname])]
     ELSE IF netIsIP(url.hostname) # 0
       THEN literalVerdict(url, isPrivateIp(url.hostname))
     ELSE [kind |-> "lookup", url |-> url]

\* the for-loop of assertUrlAllowed over addrs, from element k on
RECURSIVE addrLoop(_, _, _)

\* lines 323-328, for addrs[k]
addrCheck(url, addrs, k, private) ==
  IF ~private.ok THEN [kind |-> "throw", error |-> private]
  ELSE IF private.value
    THEN [kind |-> "throw",
          error |-> ToolError("SSRF_BLOCKED",
                              [hostname |-> url.hostname, address |-> addrs[k].address])]
  ELSE addrLoop(url, addrs, k + 1)

addrLoop(url, addrs, k) ==
  IF k > Len(addrs) THEN [kind |-> "return", url |-> url]
  ELSE addrCheck(url, addrs, k, isPrivateIp(addrs[k].address))

\* What lookup(hostname, {all, verbatim}) settles with: a rejection, or the
\* list of addresses.
LookupFailed == [ok |-> FALSE, message |-> "ENOTFOUND"]

LookupResult(addrs) == [ok |-> TRUE, addrs |-> addrs]

assertUrlAllowedResolved_firstOnly(url, answer) ==
  IF ~answer.ok
    THEN [kind |-> "throw",
          error |-> ToolError("DNS_FAILED",
                              [hostname |-> url.hostname, message |-> answer.message])]
  ELSE IF answer.addrs = <<>> THEN [kind |-> "return", url |-> url]
  ELSE addrLoop(url, <<answer.addrs[1]>>, 1)

assertUrlAllowedResolved_failOpen(url, answer) ==
  IF ~answer.ok THEN [kind |-> "return", url |-> url]
  ELSE addrLoop(url, answer.addrs, 1)

\* The rest of assertUrlAllowed, lines 312-331, once the lookup settled.
assertUrlAllowedResolved(url, answer) ==
  IF ~answer.ok
    THEN [kind |-> "throw",
          error |-> ToolError("DNS_FAILED",
                              [hostname |-> url.hostname, message |-> answer.message])]
  ELSE addrLoop(url, answer.addrs, 1)

\* isRedirectStatus(status)
isRedirectStatus(status) ==
  status = 301 \/ status = 302 \/ status = 303 \/ status = 307 \/ status = 308

\* A Location header: none (headers.get gives null), the empty string, an
\* absolute URL, a path, or a text that new URL(location, base) rejects.
NoLocation == [kind |-> "null"]

EmptyLocation == [kind |-> "empty"]

AbsoluteLocation(u) == [kind |-> "absolute", url |-> u]

PathLocation(pathname) == [kind |-> "path", pathname |-> pathname]

BadLocation == [kind |-> "bad"]

\* an exception that is not a ToolError
NativeError(name) == [ok |-> FALSE, native |-> TRUE, name |-> name]

\* new URL(location, allowedUrl)
resolveLocation(location, allowedUrl) ==
  IF location.kind = "absolute" /\ location.url.valid THEN Ok(location.url)
  ELSE IF location.kind = "path"
    THEN Ok([allowedUrl EXCEPT !.pathname = location.pathname])
  ELSE NativeError("TypeError")

\* the state of one fetchWithGuards call, as one record
FState ==
  [pc |-> fPc, i |-> fI, current |-> fCurrent, allowed |-> fAllowed,
   redirects |-> fRedirects, timer |-> fTimer, listener |-> fListener,
   dnsLog |-> fDnsLog, requests |-> fRequests, accepted |-> fAccepted,
   addrs |-> fAddrs, resp |-> fResp, body |-> fBody, result |-> fResult]

\* the handler with a catch that rethrows what is no ToolError
fetchHandlerReply_rethrow(r) ==
  IF r.ok THEN okResult(r.value)
  ELSE IF "native" \in DOMAIN r THEN NoResult
  ELSE errorResult(r.code, r.details)

\* the try/catch of the fetch handler around the core
fetchHandlerReply(r) ==
  IF r.ok THEN okResult(r.value)
  ELSE IF "native" \in DOMAIN r THEN errorResult("INTERNAL_ERROR", Undef)
  ELSE errorResult(r.code, r.details)

\* the call moves to the state st; the handler replies when the core is done
FStep(st) ==
  /\ fPc' = st.pc
  /\ fI' = st.i
  /\ fCurrent' = st.current
  /\ fAllowed' = st.allowed
  /\ fRedirects' = st.redirects
  /\ fTimer' = st.timer
  /\ fListener' = st.listener
  /\ fDnsLog' = st.dnsLog
  /\ fRequests' = st.requests
  /\ fAccepted' = st.accepted
  /\ fAddrs' = st.addrs
  /\ fResp' = st.resp
  /\ fBody' = st.body
  /\ fResult' = st.result
  /\ fReply' = IF st.pc = "done" THEN fetchHandlerReply(st.result) ELSE NoResult

\* the core throws error, or returns (error is then Ok(value))
fetchEnds(st, result) == [st EXCEPT !.pc = "done", !.result = result]

\* the finally block, lines 434-439
fetchFinally(st) == [st EXCEPT !.timer = FALSE, !.listener = FALSE]

\* assertUrlAllowed returned url: allowedUrl of this iteration
accept(st, url) ==
  [st EXCEPT !.allowed = UrlString(url),
             !.accepted = Append(@, [i |-> st.i, url |-> UrlString(url)])]

\* lines 402-428: the timer, the check of the signal, the listener, and the
\* call of fetchImpl(allowedUrl.toString(), ...)
issueRequest(st, signal) ==
  IF signal = "aborted" THEN fetchEnds(st, ToolError("ABORTED", Undef))
  ELSE [st EXCEPT !.timer = TRUE,
                  !.listener = (signal = "idle"),
                  !.requests = Append(@, [i |-> st.i, url |-> st.allowed]),
                  !.pc = "fetching"]

\* what the loop body does with the verdict of assertUrlAllowed
afterVerdict(st, signal, v) ==
  IF v.kind = "throw" THEN fetchEnds(st, v.error)
  ELSE IF v.kind = "return" THEN issueRequest(accept(st, v.url), signal)
  ELSE [st EXCEPT !.pc = "lookup",
                  !.dnsLog = Append(@, [i |-> st.i, hostname |-> v.url.hostname])]

loopBody_firstHopOnly(st, signal) ==
  IF st.i > 0 THEN issueRequest([st EXCEPT !.allowed = st.current], signal)
  ELSE afterVerdict(st, signal, assertUrlAllowedSync(st.current))

\* The loop body from its top, line 400, to its first wait: for the lookup, or
\* for the response.
loopBody(st, signal) == afterVerdict(st, signal, assertUrlAllowedSync(st.current))

\* the outcome fetchWithGuards returns, lines 460-470 (statusText and headers
\* are copied from the response and are left out)
fetchOutcome(st) ==
  [url |-> st.allowed, status |-> st.resp.status,
   ok |-> (st.resp.status >= 200 /\ st.resp.status <= 299),
   body |-> st.body.text, truncated |-> st.body.truncated,
   bytesRead |-> st.body.bytesRead, redirects |-> st.redirects]

\* lines 441-459, for the response in st.resp
afterResponse(st, location) ==
  IF isRedirectStatus(st.resp.status)
    THEN IF location.kind \in {"null", "empty"}
           THEN fetchEnds(st, ToolError("FETCH_FAILED", [status |-> st.resp.status]))
         ELSE IF ~resolveLocation(location, st.allowed.href).ok
           THEN fetchEnds(st, resolveLocation(location, st.allowed.href))
         ELSE [st EXCEPT
                 !.redirects =
                   Append(@, [status |-> st.resp.status,
                              location |->
                                UrlString(resolveLocation(location, st.allowed.href).value)]),
                 !.pc = "hop"]
  ELSE IF ~st.resp.hasBody THEN fetchEnds(st, Ok(fetchOutcome(st)))
  ELSE [st EXCEPT !.pc = "reading"]

\* one turn of the loop of readBodyText without the cut at the cap: the chunk
\* that crosses the cap is kept whole
readChunk_noCut(st, byteLength, maxBytes, cancelOk) ==
  LET got == [st EXCEPT !.body.delivered = Append(@, byteLength)]
      piece(n) == [chunk |-> Len(st.body.text) + 1, length |-> n]
  IN [got EXCEPT !.body.text = Append(@, piece(byteLength)),
                 !.body.bytesRead = @ + byteLength]

\* One turn of the loop of readBodyText for a chunk of byteLength bytes, lines
\* 353-367. cancelOk: the promise of reader.cancel() fulfils; when it rejects,
\* readBodyText throws what it rejected with.
readChunk(st, byteLength, maxBytes, cancelOk) ==
  LET got == [st EXCEPT !.body.delivered = Append(@, byteLength)]
      remaining == maxBytes - st.body.bytesRead
      piece(n) == [chunk |-> Len(st.body.text) + 1, length |-> n]
      cut == [got EXCEPT !.body.truncated = TRUE, !.body.cancelled = TRUE]
      cutInside == [cut EXCEPT !.body.text = Append(@, piece(remaining)),
                               !.body.bytesRead = @ + remaining]
      cancelled(c) == IF cancelOk THEN fetchEnds(c, Ok(fetchOutcome(c)))
                      ELSE fetchEnds(c, NativeError("TypeError"))
  IN IF remaining <= 0 THEN cancelled(cut)
     ELSE IF byteLength > remaining THEN cancelled(cutInside)
     ELSE [got EXCEPT !.body.text = Append(@, piece(byteLength)),
                      !.body.bytesRead = @ + byteLength]

\* input of the running call, as parseFetchToolInput returned it
fInput == parseFetchToolInput(fRaw).value

\* ---- the calls the fetch model explores ----

MaxHops == 2

MaxAddrs == 3

MaxChunks == 2

h_name == <<"a", ".", "c", "o", "m">>

h_public4 == <<"8", ".", "8", ".", "8", ".", "8">>

h_loopback4 == <<"1", "2", "7", ".", "0", ".", "0", ".", "1">>

h_private4 == <<"1", "0", ".", "0", ".", "0", ".", "1">>

h_linklocal4 ==
  <<"1", "6", "9", ".", "2", "5", "4", ".", "1", "6", "9", ".", "2", "5", "4">>

h_private172 ==
  <<"1", "7", "2", ".", "3", "1", ".", "2", "5", "5", ".", "2", "5", "5">>

h_private192 == <<"1", "9", "2", ".", "1", "6", "8", ".", "1", ".", "1">>

h_public6 == <<"2", "6", "0", "6", ":", "4", "7", "0", "0", ":", ":", "1", "1", "1", "1">>

h_loopback6 == <<":", ":", "1">>

u_name == Url("http:", "", "", h_name, "/")

u_public4 == Url("https:", "", "", h_public4, "/")

u_loopback4 == Url("http:", "", "", h_loopback4, "/")

u_private4 == Url("http:", "", "", h_private4, "/")

u_ftp == Url("ftp:", "", "", h_name, "/")

u_userinfo == Url("http:", "user", "", h_name, "/")

u_localhost == Url("http:", "", "", h_localhost, "/")

u_metadata == Url("http:", "", "", h_linklocal4, "/latest/meta-data/")

u_private172 == Url("https:", "", "", h_private172, "/")

u_private192 == Url("http:", "", "", h_private192, "/")

u_userinfoLoopback == Url("http:", "user", "secret", h_loopback4, "/")

InitialUrls ==
  {u_name, u_public4, u_loopback4, u_metadata, u_private172, u_private192,
   u_ftp, u_userinfo, u_userinfoLoopback, u_localhost, InvalidUrl}

FetchRaw(url, timeoutMs, maxBytes, maxRedirects) ==
  [t |-> "object", url |-> url, timeoutMs |-> timeoutMs, maxBytes |-> maxBytes,
   maxRedirects |-> maxRedirects]

IsFetchInput(raw) ==
  \/ \E u \in InitialUrls, n \in 0..MaxHops :
       raw = FetchRaw(UrlString(u), Undef, Num(MIN_MAX_BYTES), Num(n))
  \/ raw = FetchRaw(UrlString(u_name), Undef, Undef, Num(MAX_MAX_REDIRECTS + 1))
  \/ raw = FetchRaw(EmptyString, Undef, Undef, Undef)
  \/ raw = Null

\* the addresses a lookup may return
AddrPool ==
  {[address |-> h_public6, family |-> 6], [address |-> h_private4, family |-> 4],
   [address |-> h_loopback6, family |-> 6]}

LookupAnswers ==
  {LookupFailed} \cup
  {LookupResult(addrs) : addrs \in UNION {[1..n -> AddrPool] : n \in 0..MaxAddrs}}

Statuses == {200, 300, 301, 302, 303, 304, 307, 308}

Locations ==
  {NoLocation, EmptyLocation, BadLocation, PathLocation("/next"),
   AbsoluteLocation(u_private4), AbsoluteLocation(u_public4),
   AbsoluteLocation(u_ftp)}

BodyChunkSizes == {0, 700, 1024}

\* the exec server with no call in progress
ExecIdle ==
  /\ eRaw = Undef
  /\ eSignal = "none"
  /\ ePc = "idle"
  /\ eResult = NoResult
  /\ RunIdle

FetchInit ==
  /\ ExecIdle
  /\ IsFetchInput(fRaw)
  /\ fSignal \in {"none", "idle", "aborted"}
  /\ fPc = "idle"
  /\ fI = 0
  /\ fCurrent = NoUrl
  /\ fAllowed = NoUrl
  /\ fRedirects = <<>>
  /\ fTimer = FALSE
  /\ fListener = FALSE
  /\ fDnsLog = <<>>
  /\ fRequests = <<>>
  /\ fAccepted = <<>>
  /\ fAddrs = NoAnswer
  /\ fResp = NoResp
  /\ fBody = NoBody
  /\ fResult = NoResult
  /\ fReply = NoResult

\* ---- the steps of a fetch call ----

\* The tool-call handler runs: parseFetchToolInput, then fetchWithGuards up to
\* its first wait. globalThis.fetch is a function or is missing.
FetchCallTool ==
  /\ UNCHANGED execVars
  /\ fPc = "idle"
  /\ \E fetchImplType \in {"function", "undefined"} :
       LET parsed == parseFetchToolInput(fRaw)
       IN FStep(IF ~parsed.ok THEN fetchEnds(FState, parsed)
                ELSE IF fetchImplType # "function"
                  THEN fetchEnds(FState, ToolError("INTERNAL_ERROR", Undef))
                ELSE loopBody([FState EXCEPT !.current = parsed.value.url], fSignal))
  /\ UNCHANGED <<fRaw, fSignal>>

\* The lookup settles; assertUrlAllowed finishes and, when it returns, the
\* request is issued in the same turn.
DnsReply ==
  /\ UNCHANGED execVars
  /\ fPc = "lookup"
  /\ \E answer \in LookupAnswers :
       FStep(afterVerdict([FState EXCEPT !.addrs = answer], fSignal,
                          assertUrlAllowedResolved(fCurrent.href, answer)))
  /\ UNCHANGED <<fRaw, fSignal>>

\* fetchImpl resolves with a response: the finally block, then lines 441-459.
\* The Location of a response that is not a redirect is not read, and the body
\* of a redirect is only cancelled: responses that differ in these are one.
\* A body is explored for status 200; readBodyText does not look at the status.
FetchResponse ==
  /\ UNCHANGED execVars
  /\ fPc = "fetching"
  /\ \E status \in Statuses :
       \E location \in (IF isRedirectStatus(status) THEN Locations ELSE {NoLocation}),
          hasBody \in (IF status = 200 THEN BOOLEAN ELSE {FALSE}) :
         FStep(afterResponse([fetchFinally(FState) EXCEPT
                                !.addrs = NoAnswer,
                                !.resp = [status |-> status, location |-> location,
                                          hasBody |-> hasBody]],
                             location))
  /\ UNCHANGED <<fRaw, fSignal>>

\* fetchImpl rejects after the abort of abortController or a transport error:
\* the catch block, line 430, and the finally block
fetchRejects(st, message) ==
  fetchEnds(fetchFinally([st EXCEPT !.addrs = NoAnswer]),
            ToolError("FETCH_FAILED", [message |-> message, url |-> st.allowed]))

\* The per-request timer fires: abortController.abort(new Error('timeout')).
FetchTimerFire ==
  /\ UNCHANGED execVars
  /\ fPc = "fetching"
  /\ fTimer
  /\ FStep(fetchRejects(FState, "timeout"))
  /\ UNCHANGED <<fRaw, fSignal>>

\* The caller aborts the signal while the call is in progress; onAbort runs
\* when it is attached.
FetchSignalAbort ==
  /\ UNCHANGED execVars
  /\ fSignal = "idle"
  /\ fPc \in {"lookup", "fetching", "hop", "reading"}
  /\ fSignal' = "aborted"
  /\ FStep(IF fListener THEN fetchRejects(FState, "aborted") ELSE FState)
  /\ UNCHANGED fRaw

\* The transport fails (connection refused, reset, TLS error).
FetchFail ==
  /\ UNCHANGED execVars
  /\ fPc = "fetching"
  /\ FStep(fetchRejects(FState, "fetch failed"))
  /\ UNCHANGED <<fRaw, fSignal>>

\* NextHop with a loop test that lets one more iteration run
NextHop_oneMore ==
  /\ UNCHANGED execVars
  /\ fPc = "hop"
  /\ LET st == [FState EXCEPT !.current = fRedirects[Len(fRedirects)].location,
                              !.i = @ + 1,
                              !.addrs = NoAnswer]
     IN FStep(IF st.i <= fInput.maxRedirects + 1 THEN loopBody(st, fSignal)
              ELSE fetchEnds(st, ToolError("TOO_MANY_REDIRECTS",
                                           [maxRedirects |-> fInput.maxRedirects,
                                            redirects |-> st.redirects])))
  /\ UNCHANGED <<fRaw, fSignal>>

\* response.body?.cancel() settled: current = next, i += 1, the loop test, and
\* the next iteration up to its first wait, or line 473.  The model follows a
\* chain for MaxHops redirects: a longer chain is left at this point.
NextHop ==
  /\ UNCHANGED execVars
  /\ fPc = "hop"
  /\ fI + 1 <= MaxHops \/ fI + 1 > fInput.maxRedirects
  /\ LET st == [FState EXCEPT !.current = fRedirects[Len(fRedirects)].location,
                              !.i = @ + 1,
                              !.addrs = NoAnswer]
     IN FStep(IF st.i <= fInput.maxRedirects THEN loopBody(st, fSignal)
              ELSE fetchEnds(st, ToolError("TOO_MANY_REDIRECTS",
                                           [maxRedirects |-> fInput.maxRedirects,
                                            redirects |-> st.redirects])))
  /\ UNCHANGED <<fRaw, fSignal>>

\* reader.read() gives a chunk.
BodyChunk ==
  /\ UNCHANGED execVars
  /\ fPc = "reading"
  /\ Len(fBody.delivered) < MaxChunks
  /\ \E byteLength \in BodyChunkSizes, cancelOk \in BOOLEAN :
       FStep(readChunk(FState, byteLength, fInput.maxBytes, cancelOk))
  /\ UNCHANGED <<fRaw, fSignal>>

\* reader.read() gives done: the body ended.
BodyEnd ==
  /\ UNCHANGED execVars
  /\ fPc = "reading"
  /\ FStep(fetchEnds(FState, Ok(fetchOutcome(FState))))
  /\ UNCHANGED <<fRaw, fSignal>>

\* reader.read() rejects: the error is not a ToolError.
BodyError ==
  /\ UNCHANGED execVars
  /\ fPc = "reading"
  /\ FStep(fetchEnds(FState, NativeError("TypeError")))
  /\ UNCHANGED <<fRaw, fSignal>>

FetchNext ==
  \/ FetchCallTool
  \/ DnsReply
  \/ FetchResponse
  \/ FetchTimerFire
  \/ FetchSignalAbort
  \/ FetchFail
  \/ NextHop
  \/ BodyChunk
  \/ BodyEnd
  \/ BodyError

SpecFetch == FetchInit /\ [][FetchNext]_vars

-----------------------------------------------------------------------------
(* The fetch server, on targets whose host is an IPv6 literal or a reserved
   name *)

\* url.hostname of http://[::1]/, http://[fc00::1]/ and
\* http://[2606:4700::1111]/: new URL keeps the brackets
h_bracketLoopback6 == <<"[">> \o h_loopback6 \o <<"]">>

h_bracketPrivate6 == <<"[", "f", "c", "0", "0", ":", ":", "1", "]">>

h_bracketPublic6 == <<"[">> \o h_public6 \o <<"]">>

h_localhostDot == h_localhost \o <<".">>

h_printerLocal == <<"p", "r", "i", "n", "t", "e", "r">> \o s_local

h_dbInternalDot == <<"d", "b">> \o s_internal \o <<".">>

\* names that only look reserved: localhost.a.com, notlocal, local.a.com
h_localhostSub == h_localhost \o <<".">> \o h_name

h_notlocal == <<"n", "o", "t", "l", "o", "c", "a", "l">>

h_localSub == <<"l", "o", "c", "a", "l", ".">> \o h_name

LiteralHosts6 == {h_bracketLoopback6, h_bracketPrivate6, h_bracketPublic6}

ReservedNames == {h_localhost, h_localhostDot, h_printerLocal, h_dbInternalDot}

OtherNames == {h_name, h_localhostSub, h_notlocal, h_localSub}

\* a reserved name in a URL that assertUrlAllowed refuses for its scheme or its
\* userinfo
u_userinfoLocalhost == Url("http:", "user", "", h_localhost, "/")

u_ftpLocal == Url("ftp:", "", "", h_printerLocal, "/")

\* one GET without redirects of http://host/, or of one of the two URLs above
IsHostInput(raw) ==
  \/ \E h \in LiteralHosts6 \cup ReservedNames \cup OtherNames \cup {h_public4, h_loopback4} :
       raw = FetchRaw(UrlString(Url("http:", "", "", h, "/")), Undef,
                      Num(MIN_MAX_BYTES), Num(0))
  \/ \E u \in {u_userinfoLocalhost, u_ftpLocal} :
       raw = FetchRaw(UrlString(u), Undef, Num(MIN_MAX_BYTES), Num(0))

HostsInit ==
  /\ ExecIdle
  /\ IsHostInput(fRaw)
  /\ fSignal = "idle"
  /\ fPc = "idle"
  /\ fI = 0
  /\ fCurrent = NoUrl
  /\ fAllowed = NoUrl
  /\ fRedirects = <<>>
  /\ fTimer = FALSE
  /\ fListener = FALSE
  /\ fDnsLog = <<>>
  /\ fRequests = <<>>
  /\ fAccepted = <<>>
  /\ fAddrs = NoAnswer
  /\ fResp = NoResp
  /\ fBody = NoBody
  /\ fResult = NoResult
  /\ fReply = NoResult

SpecFetchHosts == HostsInit /\ [][FetchNext]_vars

-----------------------------------------------------------------------------
(* Both servers, on requests at the limits of their input fields *)

\* node -v
ExecBaseRaw ==
  ObjectRaw(Str(c_node), Arr(<<Str(<<"-", "v">>)>>), Undef, Undef, Undef)

\* GET https://8.8.8.8/ without redirects
FetchBaseRaw == FetchRaw(UrlString(u_public4), Undef, Undef, Num(0))

\* values of a numeric field around its bounds, and values that are no integer
LimitValues(min, max) ==
  {Undef, Num(min - 1), Num(min), Num(max), Num(max + 1), Frac(min), Str(<<"1">>)}

\* node -v with one field at a time at its limits or with an unknown field, and
\* requests the parser refuses
IsExecLimitInput(raw) ==
  \/ \E t \in LimitValues(1, MAX_TIMEOUT_MS) : raw = [ExecBaseRaw EXCEPT !.timeoutMs = t]
  \/ \E m \in LimitValues(MIN_MAX_OUTPUT_BYTES, MAX_MAX_OUTPUT_BYTES) :
       raw = [ExecBaseRaw EXCEPT !.maxOutputBytes = m]
  \/ \E n \in {0, MAX_STDIN_BYTES, MAX_STDIN_BYTES + 1} :
       raw = [ExecBaseRaw EXCEPT !.stdin = StdinStr(n)]
  \/ raw = [ExecBaseRaw EXCEPT !.stdin = Num(7)]
  \/ \E a \in EdgeArgs : raw = [ExecBaseRaw EXCEPT !.args = a]
  \/ raw = [ExecBaseRaw EXCEPT !.timeoutMs = Frac(1), !.maxOutputBytes = Num(0)]
  \/ raw = ExecBaseRaw @@ [cwd |-> Str(<<"/">>)]
  \/ raw = ObjectRaw(Str(c_git), Arr(<<Str(f_C), Str(<<"/">>)>>), Undef, Undef, Undef)
  \/ raw = ObjectRaw(Str(c_bash), Undef, Undef, Undef, Undef)
  \/ raw = Null

\* the GET with one field at a time at its limits or with an unknown field, and
\* requests the parser refuses
IsFetchLimitInput(raw) ==
  \/ \E t \in LimitValues(1, FETCH_MAX_TIMEOUT_MS) :
       raw = [FetchBaseRaw EXCEPT !.timeoutMs = t]
  \/ \E m \in LimitValues(MIN_MAX_BYTES, MAX_MAX_BYTES) :
       raw = [FetchBaseRaw EXCEPT !.maxBytes = m]
  \/ \E n \in LimitValues(0, MAX_MAX_REDIRECTS) :
       raw = [FetchBaseRaw EXCEPT !.maxRedirects = n]
  \/ \E u \in {UrlString(u_name), EmptyString, Undef, Num(1)} :
       raw = [FetchBaseRaw EXCEPT !.url = u]
  \/ raw = [FetchBaseRaw EXCEPT !.maxBytes = Frac(1), !.maxRedirects = Num(6)]
  \/ raw = FetchBaseRaw @@ [method |-> Str(<<"P", "O", "S", "T">>)]
  \/ raw = Null

\* the pairs of requests with which both servers are called: both at their upper
\* limits, and both refused by the parser
BothRaw ==
  {<<[ExecBaseRaw EXCEPT !.timeoutMs = Num(MAX_TIMEOUT_MS),
                         !.maxOutputBytes = Num(MAX_MAX_OUTPUT_BYTES)],
     [FetchBaseRaw EXCEPT !.timeoutMs = Num(FETCH_MAX_TIMEOUT_MS),
                          !.maxBytes = Num(MAX_MAX_BYTES)]>>,
   <<ObjectRaw(Str(c_git), Arr(<<Str(f_C), Str(<<"/">>)>>), Undef, Undef, Undef),
     [FetchBaseRaw EXCEPT !.maxRedirects = Num(MAX_MAX_REDIRECTS + 1)]>>}

\* One of the two servers receives a tool call, with a signal the caller may
\* abort, and the other receives none; or each of them receives one.
ServersInit ==
  /\ ePc = "idle"
  /\ eResult = NoResult
  /\ RunIdle
  /\ fPc = "idle"
  /\ fI = 0
  /\ fCurrent = NoUrl
  /\ fAllowed = NoUrl
  /\ fRedirects = <<>>
  /\ fTimer = FALSE
  /\ fListener = FALSE
  /\ fDnsLog = <<>>
  /\ fRequests = <<>>
  /\ fAccepted = <<>>
  /\ fAddrs = NoAnswer
  /\ fResp = NoResp
  /\ fBody = NoBody
  /\ fResult = NoResult
  /\ fReply = NoResult
  /\ \/ /\ IsExecLimitInput(eRaw)
        /\ eSignal = "idle"
        /\ fRaw = Undef
        /\ fSignal = "none"
     \/ /\ IsFetchLimitInput(fRaw)
        /\ fSignal = "idle"
        /\ eRaw = Undef
        /\ eSignal = "none"
     \/ /\ \E pair \in BothRaw : eRaw = pair[1] /\ fRaw = pair[2]
        /\ eSignal = "none"
        /\ fSignal = "none"

\* the steps of the server that received the call
ServersNext ==
  \/ eRaw # Undef /\ ExecNext
  \/ fRaw # Undef /\ FetchNext

SpecServers == ServersInit /\ [][ServersNext]_vars

-----------------------------------------------------------------------------
(* isPrivateIp, called on address texts around the edges of its ranges *)

\* a.b.c.d
QuadText(o) ==
  numberToString(o[1]) \o <<".">> \o numberToString(o[2]) \o <<".">>
    \o numberToString(o[3]) \o <<".">> \o numberToString(o[4])

\* the four octets of the address whose leading 24 bits are n and whose last
\* octet is d
QuadOf(n, d) == <<n \div 65536, (n \div 256) % 256, n % 256, d>>

\* the blocks at whose edges addresses are taken: the leading three octets and
\* the prefix length
EdgeBlocks ==
  {<<0, 0, 0, 8>>, <<10, 0, 0, 8>>, <<100, 64, 0, 10>>, <<127, 0, 0, 8>>,
   <<169, 254, 0, 16>>, <<172, 16, 0, 12>>, <<192, 168, 0, 16>>, <<192, 0, 0, 24>>,
   <<192, 0, 2, 24>>, <<198, 18, 0, 15>>, <<198, 51, 100, 24>>, <<203, 0, 113, 24>>,
   <<224, 0, 0, 4>>, <<240, 0, 0, 4>>}

\* the first and the last address of a block, and the addresses next to them
BlockEdges(blk) ==
  LET first == blk[1] * 65536 + blk[2] * 256 + blk[3]
      size == 2 ^ (24 - blk[4])
  IN {QuadOf(first, 0), QuadOf(first + size - 1, 255)}
       \cup (IF first > 0 THEN {QuadOf(first - 1, 255)} ELSE {})
       \cup (IF first + size < 2 ^ 24 THEN {QuadOf(first + size, 0)} ELSE {})

Ipv4Pool ==
  UNION {BlockEdges(blk) : blk \in EdgeBlocks}
    \cup {<<127, 0, 0, 1>>, <<10, 0, 0, 1>>, <<192, 168, 1, 1>>, <<8, 8, 8, 8>>,
          <<100, 100, 100, 100>>, <<172, 20, 1, 2>>, <<1, 2, 3, 4>>}

\* n.toString(16)
RECURSIVE hexText(_)
hexText(n) ==
  IF n < 16 THEN <<HexDigits[n + 1]>>
  ELSE hexText(n \div 16) \o <<HexDigits[(n % 16) + 1]>>

\* the groups g[a..b] in hexadecimal, joined by colons
RECURSIVE groupsText(_, _, _)
groupsText(g, a, b) ==
  IF a > b THEN <<>>
  ELSE IF a = b THEN hexText(g[a])
  ELSE hexText(g[a]) \o <<":">> \o groupsText(g, a + 1, b)

\* the first of the longest runs of zero groups among g[1..n]: <<start, length>>
zeroRun(g, n) ==
  LET runs == {r \in (1..n) \X (1..n) :
                 /\ r[1] + r[2] - 1 <= n
                 /\ \A k \in r[1]..(r[1] + r[2] - 1) : g[k] = 0}
  IN IF runs = {} THEN <<0, 0>>
     ELSE CHOOSE r \in runs :
            \A q \in runs : q[2] < r[2] \/ (q[2] = r[2] /\ q[1] >= r[1])

\* g[1..n] with its longest run of zero groups written as "::"
compressedText(g, n) ==
  LET r == zeroRun(g, n)
  IN IF r[2] = 0 THEN groupsText(g, 1, n)
     ELSE groupsText(g, 1, r[1] - 1) \o <<":", ":">> \o groupsText(g, r[1] + r[2], n)

\* the last two groups as a dotted quad
tailText(g) == QuadText(<<g[7] \div 256, g[7] % 256, g[8] \div 256, g[8] % 256>>)

\* head, then the dotted quad: one colon between them unless head ends in one
withTail(head, g) ==
  IF head[Len(head)] = ":" THEN head \o tailText(g) ELSE head \o <<":">> \o tailText(g)

\* the ways an address of eight groups is written: in full, compressed, with a
\* dotted-quad tail, compressed with a dotted-quad tail, and in upper case
Ipv6Forms(g) ==
  [full |-> groupsText(g, 1, 8),
   compressed |-> compressedText(g, 8),
   tail |-> withTail(groupsText(g, 1, 6), g),
   compressedTail |-> withTail(compressedText(g, 6), g)]

\* ::ffff:a.b.c.d as eight groups
MappedGroups(o) == <<0, 0, 0, 0, 0, 65535, o[1] * 256 + o[2], o[3] * 256 + o[4]>>

\* addresses at the edges of the IPv6 ranges
Ipv6EdgeGroups ==
  {<<0, 0, 0, 0, 0, 0, 0, 0>>, <<0, 0, 0, 0, 0, 0, 0, 1>>, <<0, 0, 0, 0, 0, 0, 0, 2>>,
   <<64512, 0, 0, 0, 0, 0, 0, 1>>, <<64512, 0, 0, 0, 0, 0, 0, 0>>,
   <<65023, 65535, 65535, 65535, 65535, 65535, 65535, 65535>>,
   <<64511, 65535, 65535, 65535, 65535, 65535, 65535, 65535>>,
   <<65024, 0, 0, 0, 0, 0, 0, 0>>,
   <<65152, 0, 0, 0, 0, 0, 0, 1>>, <<65152, 0, 0, 0, 0, 0, 0, 0>>,
   <<65215, 65535, 65535, 65535, 65535, 65535, 65535, 65535>>,
   <<65151, 65535, 65535, 65535, 65535, 65535, 65535, 65535>>,
   <<65216, 0, 0, 0, 0, 0, 0, 0>>,
   <<65280, 0, 0, 0, 0, 0, 0, 0>>,
   <<65535, 65535, 65535, 65535, 65535, 65535, 65535, 65535>>,
   <<65279, 65535, 65535, 65535, 65535, 65535, 65535, 65535>>,
   <<8193, 3512, 0, 0, 0, 0, 0, 0>>,
   <<8193, 3512, 65535, 65535, 65535, 65535, 65535, 65535>>,
   <<8193, 3511, 65535, 65535, 65535, 65535, 65535, 65535>>,
   <<8193, 3513, 0, 0, 0, 0, 0, 0>>,
   <<9734, 18176, 0, 0, 0, 0, 0, 4369>>,
   <<8193, 3512, 0, 1, 0, 0, 0, 1>>,
   <<0, 0, 0, 0, 0, 65534, 32512, 1>>, <<0, 0, 0, 0, 1, 65535, 32512, 1>>,
   <<0, 0, 0, 0, 0, 0, 32512, 1>>, <<100, 65435, 0, 0, 0, 0, 2560, 1>>}

Ipv6Pool == Ipv6EdgeGroups \cup {MappedGroups(o) : o \in Ipv4Pool}

\* a link-local address with a zone, as the resolver gives it
ZonedText(g) == compressedText(g, 8) \o <<"%", "e", "t", "h", "0">>

\* the texts isPrivateIp is called with, each with the address it was written
\* from
IpTexts ==
  {[text |-> QuadText(o), version |-> 4, addr |-> o, form |-> "quad"] : o \in Ipv4Pool}
    \cup {[text |-> Ipv6Forms(g)[f], version |-> 6, addr |-> g, form |-> f] :
            g \in Ipv6Pool, f \in {"full", "compressed", "tail", "compressedTail"}}
    \cup {[text |-> [k \in 1..Len(Ipv6Forms(g).full) |->
                       IF Ipv6Forms(g).full[k] = "f" THEN "F" ELSE Ipv6Forms(g).full[k]],
           version |-> 6, addr |-> g, form |-> "upper"] : g \in Ipv6EdgeGroups}
    \cup {[text |-> ZonedText(g), version |-> 6, addr |-> g, form |-> "zoned"] :
            g \in {<<65152, 0, 0, 0, 0, 0, 0, 1>>}}
    \cup {[text |-> t, version |-> 0, addr |-> <<>>, form |-> "none"] :
            t \in {h_localhost, <<"0", "1", "0", ".", "0", ".", "0", ".", "1">>}}

\* isPrivateIp(ip) is about to be called: ip is held in fRaw
IpInit ==
  /\ ExecIdle
  /\ \E t \in IpTexts : fRaw = t.text
  /\ fSignal = "none"
  /\ fPc = "idle"
  /\ fI = 0
  /\ fCurrent = NoUrl
  /\ fAllowed = NoUrl
  /\ fRedirects = <<>>
  /\ fTimer = FALSE
  /\ fListener = FALSE
  /\ fDnsLog = <<>>
  /\ fRequests = <<>>
  /\ fAccepted = <<>>
  /\ fAddrs = NoAnswer
  /\ fResp = NoResp
  /\ fBody = NoBody
  /\ fResult = NoResult
  /\ fReply = NoResult

\* one call of isPrivateIp: what it returned or threw is held in fResult
IpCall ==
  /\ UNCHANGED execVars
  /\ fPc = "idle"
  /\ fPc' = "done"
  /\ fResult' = isPrivateIp(fRaw)
  /\ UNCHANGED <<fRaw, fSignal, fI, fCurrent, fAllowed, fRedirects, fTimer, fListener,
                 fDnsLog, fRequests, fAccepted, fAddrs, fResp, fBody, fReply>>

IpNext == IpCall

SpecIsPrivateIp == IpInit /\ [][IpNext]_vars

Failed(r, code) == ~r.ok /\ r.code = code

-----------------------------------------------------------------------------
(* C3 *)

\* the characters of a string value, written out
C3_Text(a) == a.s \o [i \in 1..a.fill |-> FillChar]

C3_HasPrefix(a, p) ==
  Len(C3_Text(a)) >= Len(p) /\ SubSeq(C3_Text(a), 1, Len(p)) = p

C3_Is(a, p) == C3_Text(a) = p

\* the whole array, written out
C3_Items(args) ==
  IF args = Undef THEN <<>> ELSE args.items \o [i \in 1..args.pad |-> FillerArg]

C3_WellFormed(args) ==
  /\ args = Undef \/ args.t = "array"
  /\ Len(C3_Items(args)) <= 64
  /\ \A i \in 1..Len(C3_Items(args)) :
        /\ C3_Items(args)[i].t = "string"
        /\ Len(C3_Text(C3_Items(args)[i])) <= 8192
        /\ \A j \in 1..Len(C3_Items(args)[i].s) : C3_Items(args)[i].s[j] # "NUL"

C3_GitFlagged(items) ==
  \E i \in 1..Len(items) :
    \/ C3_Is(items[i], f_C) \/ C3_HasPrefix(items[i], f_C)
    \/ C3_Is(items[i], f_gitdir) \/ C3_Is(items[i], f_worktree)
    \/ C3_HasPrefix(items[i], f_gitdir \o <<"=">>)
    \/ C3_HasPrefix(items[i], f_worktree \o <<"=">>)

C3_NpmFlagged(items) ==
  \E i \in 1..Len(items) :
    \/ C3_Is(items[i], f_prefix) \/ C3_Is(items[i], f_g) \/ C3_Is(items[i], f_global)
    \/ C3_HasPrefix(items[i], f_prefix \o <<"=">>)
    \/ C3_HasPrefix(items[i], f_location \o <<"=">> \o w_global)
    \/ /\ C3_Is(items[i], f_location)
       /\ i < Len(items)
       /\ C3_Is(items[i + 1], w_global)

C3_Applies ==
  /\ ePc = "parsed"
  /\ eRaw.t = "object"
  /\ eRaw.command.t = "string"
  /\ C3_Text(eRaw.command) \in {c_git, c_npm, c_node}
  /\ C3_WellFormed(eRaw.args)

\* C3: for an allowlisted command with well-formed args, parseExecToolInput fails
\* with DISALLOWED_ARGUMENT, whatever timeoutMs, maxOutputBytes and stdin hold,
\* exactly when the command is git and some argument is -C, starts with -C, is
\* --git-dir or --work-tree or starts with --git-dir= or --work-tree=, or the
\* command is npm and some argument is --prefix, -g or --global, starts with
\* --prefix= or --location=global, or is --location followed by global.
C3_DisallowedExactly ==
  C3_Applies =>
    (Failed(eResult, "DISALLOWED_ARGUMENT") <=>
       \/ C3_Text(eRaw.command) = c_git /\ C3_GitFlagged(C3_Items(eRaw.args))
       \/ C3_Text(eRaw.command) = c_npm /\ C3_NpmFlagged(C3_Items(eRaw.args)))

\* npm st --location global, in the middle and last positions, with a bad
\* timeoutMs, maxOutputBytes and stdin, was parsed and denied
C3_Witness ==
  /\ ePc = "parsed"
  /\ eRaw = ObjectRaw(Str(c_npm),
                      Arr(<<Str(<<"s", "t">>), Str(f_location), Str(w_global)>>),
                      Num(7), Num(0), Num(1023))
  /\ Failed(eResult, "DISALLOWED_ARGUMENT")

-----------------------------------------------------------------------------
(* C2 *)

C2_BadCommand ==
  /\ eRaw.t = "object"
  /\ \/ eRaw.command.t # "string"
     \/ C3_Text(eRaw.command) \notin {c_git, c_npm, c_node}

\* C2: for every object request whose command is missing, not a string or not one
\* of git/npm/node, whatever args, stdin, timeoutMs and maxOutputBytes hold, the
\* call fails with COMMAND_NOT_ALLOWED and nothing is ever spawned.
C2_NotAllowedNeverSpawns ==
  C2_BadCommand =>
    /\ spawns = 0 /\ child = "none" /\ proc = "none"
    /\ ePc \in {"idle", "done"}
    /\ ePc = "done" =>
         /\ Failed(eResult, "COMMAND_NOT_ALLOWED")
         /\ eReply.isError /\ eReply.text.error.code = "COMMAND_NOT_ALLOWED"

\* bash with a non-array args, a non-string stdin and out-of-range limits was
\* rejected
C2_Witness ==
  /\ ePc = "done"
  /\ eRaw = ObjectRaw(Str(c_bash), Str(<<"s", "t">>), Num(7), Num(0), Num(1023))
  /\ Failed(eResult, "COMMAND_NOT_ALLOWED")
  /\ spawns = 0

-----------------------------------------------------------------------------
(* C7 *)

C7_Outcome == execOutcome(eInput, exitInfo, timedOut, stdoutC, stderrC)

\* C7: after the close event, a set timed-out flag gives TIMEOUT with the full
\* outcome whatever the exit code; else an exit code other than 0 (null included)
\* gives NON_ZERO_EXIT with the full outcome; else the outcome is returned.  Every
\* returned outcome has exitCode 0 and timedOut false.
C7_ClassifiedInOrder ==
  /\ eHist.closed =>
       /\ ePc = "done"
       /\ C7_Outcome.exitCode = exitInfo.code
       /\ C7_Outcome.stdout = stdoutC.chunks /\ C7_Outcome.stderr = stderrC.chunks
       /\ timedOut => eResult = [ok |-> FALSE, code |-> "TIMEOUT", details |-> C7_Outcome]
       /\ ~timedOut /\ exitInfo.code # Num(0) =>
            eResult = [ok |-> FALSE, code |-> "NON_ZERO_EXIT", details |-> C7_Outcome]
       /\ ~timedOut /\ exitInfo.code = Num(0) =>
            eResult = [ok |-> TRUE, value |-> C7_Outcome]
  /\ ePc = "done" /\ eResult.ok =>
       /\ eHist.closed
       /\ eResult.value.exitCode = Num(0)
       /\ eResult.value.timedOut = FALSE

\* the timer fired after the process had ended with code 0: TIMEOUT with exit code 0
C7_Witness ==
  /\ eHist.closed
  /\ timedOut
  /\ exitInfo.code = Num(0)
  /\ Failed(eResult, "TIMEOUT")
  /\ eResult.details.exitCode = Num(0)
  /\ Len(eResult.details.stdout) > 0

-----------------------------------------------------------------------------
(* C8 *)

C8_TimerFiredInFlight == eHist.timerFired = "awaiting"

C8_GroupKillByTimer ==
  \E i \in 1..Len(killLog) : killLog[i].target = "group" /\ killLog[i].by = "timer"

C8_TimeoutResult ==
  /\ ePc = "done"
  /\ Failed(eResult, "TIMEOUT")
  /\ eResult.details.timedOut = TRUE

-----------------------------------------------------------------------------
(* C9 *)

\* the abort handler ran while the call awaited close and the process was running
C9_AbortedWhileRunning ==
  \E i \in 1..Len(killLog) :
    killLog[i].by = "abort" /\ killLog[i].at = "awaiting" /\ killLog[i].running

\* C9: when the signal is aborted while the process is running, the process group
\* is killed and runExecTool fails with ABORTED.
C9_AbortInFlightFailsAborted ==
  (C9_AbortedWhileRunning /\ ePc = "done") => Failed(eResult, "ABORTED")

-----------------------------------------------------------------------------
(* C10 *)

\* runExecTool was called with a signal that was already aborted, and has ended
C10_CalledAborted ==
  /\ ePc = "done"
  /\ parseExecToolInput(eRaw).ok
  /\ eSignal = "aborted"
  /\ eHist.aborted = "no"

\* C10: when the signal is already aborted at the call, the call fails with
\* ABORTED, a spawned process is sent a process-group kill, and the timer is
\* cleared before the failure is raised.
C10_PreAbortedFailsAborted ==
  C10_CalledAborted =>
    /\ Failed(eResult, "ABORTED")
    /\ ~timerArmed
    /\ child = "pid" => Len(killLog) > 0 /\ killLog[1].target = "group"

-----------------------------------------------------------------------------
(* The fetch claims *)

\* the fetch call ended and the handler replied with this error code
FetchFailed(code) ==
  fPc = "done" /\ fReply.isError /\ fReply.text.error.code = code

\* the loop body ran for fCurrent: iteration fI was entered
InIteration == fCurrent # NoUrl /\ fI <= fInput.maxRedirects

\* no URL was handed to fetchImpl in iteration fI
NoRequestInIteration == \A k \in 1..Len(fRequests) : fRequests[k].i # fI

\* no hostname was handed to lookup in iteration fI
NoLookupInIteration == \A k \in 1..Len(fDnsLog) : fDnsLog[k].i # fI

\* the four numbers of a dotted quad
Octets(host) == [k \in 1..4 |-> Number(split(host, <<".">>)[k])]

\* the private-range table, octet by octet
InPrivateTable(o) ==
  \/ o[1] = 0
  \/ o[1] = 10
  \/ o[1] = 100 /\ o[2] \in 64..127
  \/ o[1] = 127
  \/ o[1] = 169 /\ o[2] = 254
  \/ o[1] = 172 /\ o[2] \in 16..31
  \/ o[1] = 192 /\ o[2] = 168
  \/ o[1] = 192 /\ o[2] = 0 /\ o[3] \in {0, 2}
  \/ o[1] = 198 /\ o[2] \in 18..19
  \/ o[1] = 198 /\ o[2] = 51 /\ o[3] = 100
  \/ o[1] = 203 /\ o[2] = 0 /\ o[3] = 113
  \/ o[1] >= 224

PrivateLiteral4(host) == isIPv4(host) /\ InPrivateTable(Octets(host))

\* the host names of the URLs of the model, and those of them that are
\* private dotted quads
HostPool ==
  {h_name, h_localhost, h_public4, h_loopback4, h_private4, h_linklocal4,
   h_private172, h_private192}

PrivateLiteralHosts == {h \in HostPool : PrivateLiteral4(h)}

-----------------------------------------------------------------------------
(* C1 *)

\* request k is the URL assertUrlAllowed returned in iteration k - 1
C1_RequestsAccepted ==
  /\ Len(fRequests) <= Len(fAccepted)
  /\ \A k \in 1..Len(fRequests) :
       fRequests[k] = fAccepted[k] /\ fRequests[k].i = k - 1

\* a requested URL is an http(s) URL without userinfo whose host is neither
\* localhost nor a private literal
C1_RequestsPresentable ==
  \A k \in 1..Len(fRequests) :
    LET u == fRequests[k].url.href
    IN /\ u.valid
       /\ u.protocol \in {"http:", "https:"}
       /\ u.username = "" /\ u.password = ""
       /\ u.hostname # h_localhost
       /\ u.hostname \in HostPool \ PrivateLiteralHosts

\* what assertUrlAllowed gives for the target of this iteration, with the
\* answer of its lookup when the lookup has answered
C1_VerdictWith(sync) ==
  IF sync.kind = "lookup" /\ fAddrs # NoAnswer
    THEN assertUrlAllowedResolved(fCurrent.href, fAddrs)
    ELSE sync

\* the targets a call of the model can have: the initial URLs, and what the
\* Location headers resolve to
C1_Targets ==
  {UrlString(u) : u \in InitialUrls}
    \cup {UrlString(l.url) : l \in {l \in Locations : l.kind = "absolute"}}
    \cup {UrlString([u EXCEPT !.pathname = l.pathname]) :
            u \in {u \in InitialUrls : u.valid},
            l \in {l \in Locations : l.kind = "path"}}

\* assertUrlAllowed up to its lookup, for each target
C1_SyncVerdicts == [u \in C1_Targets |-> assertUrlAllowedSync(u)]

C1_Verdict == C1_VerdictWith(C1_SyncVerdicts[fCurrent])

C1_TargetRejected == InIteration /\ C1_Verdict.kind = "throw"

\* a rejected target is not requested, and the call fails with the error of
\* the rejection
C1_RejectedFails(verdict) ==
  verdict.kind = "throw" =>
    /\ FetchFailed(verdict.error.code)
    /\ verdict.error.code \in {"INVALID_URL", "SSRF_BLOCKED", "DNS_FAILED"}
    /\ NoRequestInIteration

\* C1: every URL handed to fetchImpl was returned by assertUrlAllowed in the
\* same loop iteration, one request per iteration; a target that
\* assertUrlAllowed rejects is not requested, and the call fails with the
\* error of the rejection, which is INVALID_URL, SSRF_BLOCKED or DNS_FAILED.
C1_EveryRequestValidated ==
  /\ C1_RequestsAccepted
  /\ C1_RequestsPresentable
  /\ InIteration => C1_RejectedFails(C1_Verdict)

\* the second redirect target is rejected after two validated requests
C1_Witness ==
  /\ C1_TargetRejected
  /\ fI = 2
  /\ Len(fRequests) = 2
  /\ Len(fRedirects) = 2
  /\ FetchFailed("SSRF_BLOCKED")

-----------------------------------------------------------------------------
(* C4 *)

\* the target of this iteration is an http(s) URL whose host is a dotted quad
\* of the private-range table
C4_PrivateLiteralTarget ==
  /\ InIteration
  /\ fCurrent.href.valid
  /\ fCurrent.href.protocol \in {"http:", "https:"}
  /\ fCurrent.href.hostname \in PrivateLiteralHosts

C4_NoUserinfo == fCurrent.href.username = "" /\ fCurrent.href.password = ""

\* C4, as stated: when the target of an iteration is an http(s) URL whose host
\* is a dotted quad in the private-range table, the call fails with
\* SSRF_BLOCKED and neither a lookup nor a request was issued in that iteration.
C4_AnyPrivateLiteralBlocked ==
  C4_PrivateLiteralTarget =>
    /\ FetchFailed("SSRF_BLOCKED")
    /\ NoLookupInIteration
    /\ NoRequestInIteration

\* C4, amended: when the target of an iteration is an http(s) URL without
\* username and password whose host is a dotted quad in the private-range
\* table, the call fails with SSRF_BLOCKED; with a username or a password it
\* fails with INVALID_URL; either way neither a lookup nor a request was issued
\* in that iteration.
C4_PrivateLiteralBlocked ==
  C4_PrivateLiteralTarget =>
    /\ FetchFailed(IF C4_NoUserinfo THEN "SSRF_BLOCKED" ELSE "INVALID_URL")
    /\ NoLookupInIteration
    /\ NoRequestInIteration

\* a redirect to http://10.0.0.1/ is blocked
C4_Witness ==
  /\ C4_PrivateLiteralTarget
  /\ C4_NoUserinfo
  /\ fI = 1
  /\ fCurrent.href.hostname = h_private4
  /\ Len(fRequests) = 1
  /\ FetchFailed("SSRF_BLOCKED")

-----------------------------------------------------------------------------
(* C5 *)

\* the private addresses among those a lookup returns
C5_Private(a) ==
  IF a.family = 4 THEN PrivateLiteral4(a.address) ELSE a.address = h_loopback6

C5_AnswerHasPrivate ==
  /\ fAddrs # NoAnswer
  /\ fAddrs.ok
  /\ \E k \in 1..Len(fAddrs.addrs) : C5_Private(fAddrs.addrs[k])

\* C5: when the lookup of a target returned a list with a private address at
\* any position, the call fails with SSRF_BLOCKED, with the first private
\* address of the list in the details, and no request was issued in that
\* iteration.
C5_AnyPrivateAddressBlocks ==
  C5_AnswerHasPrivate =>
    /\ FetchFailed("SSRF_BLOCKED")
    /\ NoRequestInIteration
    /\ \E k \in 1..Len(fAddrs.addrs) :
         /\ C5_Private(fAddrs.addrs[k])
         /\ \A j \in 1..(k - 1) : ~C5_Private(fAddrs.addrs[j])
         /\ fReply.text.error.details.address = fAddrs.addrs[k].address

\* a list with two public addresses before a private one at the end
C5_Witness ==
  /\ C5_AnswerHasPrivate
  /\ Len(fAddrs.addrs) = 3
  /\ ~C5_Private(fAddrs.addrs[1])
  /\ ~C5_Private(fAddrs.addrs[2])
  /\ C5_Private(fAddrs.addrs[3])
  /\ FetchFailed("SSRF_BLOCKED")

-----------------------------------------------------------------------------
(* C6 *)

C6_LookupFailed == fAddrs # NoAnswer /\ ~fAddrs.ok

\* C6: when the lookup of a target failed, the call fails with DNS_FAILED and
\* no request was issued in that iteration.
C6_LookupFailureFails ==
  C6_LookupFailed => FetchFailed("DNS_FAILED") /\ NoRequestInIteration

\* the lookup of a redirect target fails after one request
C6_Witness ==
  /\ C6_LookupFailed
  /\ fI = 1
  /\ Len(fRequests) = 1
  /\ FetchFailed("DNS_FAILED")

-----------------------------------------------------------------------------
(* C11 *)

\* the call has ended and its process could not be started: spawn threw, or it
\* returned a child without a pid whose 'error' event follows
C11_CouldNotStart ==
  /\ ePc = "done"
  /\ spawns = 1
  /\ child # "pid"

\* C11: whenever the process cannot be started, runExecTool fails with
\* SPAWN_FAILED and the failure carries no outcome payload, whether spawn threw or
\* the child emitted 'error' (a call whose signal was already aborted aside).
C11_StartFailureIsSpawnFailed ==
  (C11_CouldNotStart /\ ~Failed(eResult, "ABORTED")) =>
     /\ Failed(eResult, "SPAWN_FAILED")
     /\ "exitCode" \notin DOMAIN eResult.details

-----------------------------------------------------------------------------
(* C12 *)

\* C12: on every path by which an exec invocation ends, every process it spawned
\* has terminated by the time the call returns.
C12_NoProcessOutlivesCall == ePc = "done" => proc # "running"

-----------------------------------------------------------------------------
(* C13 *)

\* fetchWithGuards was entered with a parsed input
C13_Called == fCurrent # NoUrl

\* the history lists the hops in the order they occurred: hop k was the answer to
\* request k, and request k + 1 went to the location of hop k
C13_HistoryInOrder(history) ==
  /\ Len(history) <= Len(fRequests)
  /\ \A k \in 1..Len(history) :
       /\ isRedirectStatus(history[k].status)
       /\ k < Len(fRequests) => fRequests[k + 1].url = history[k].location

\* C13: when the loop has received maxRedirects + 1 redirects without a terminal
\* response, the call fails with TOO_MANY_REDIRECTS whose details carry the
\* history in the order of the hops, one entry per redirect received; the requests
\* made are never more than maxRedirects + 1, and the history of a successful
\* outcome has at most maxRedirects entries.
C13_RedirectCapHolds ==
  C13_Called =>
    /\ Len(fRequests) <= fInput.maxRedirects + 1
    /\ C13_HistoryInOrder(fRedirects)
    /\ (fPc = "done" /\ Len(fRedirects) = fInput.maxRedirects + 1) =>
         /\ FetchFailed("TOO_MANY_REDIRECTS")
         /\ fResult.details.redirects = fRedirects
         /\ fResult.details.maxRedirects = fInput.maxRedirects
         /\ Len(fRequests) = Len(fRedirects)
    /\ FetchFailed("TOO_MANY_REDIRECTS") => Len(fRedirects) = fInput.maxRedirects + 1
    /\ (fPc = "done" /\ fResult.ok) =>
         /\ fResult.value.redirects = fRedirects
         /\ Len(fResult.value.redirects) <= fInput.maxRedirects

\* with maxRedirects 2, three requests were each answered by a redirect and the
\* call failed with the three hops in its details
C13_Witness ==
  /\ C13_Called
  /\ fInput.maxRedirects = 2
  /\ FetchFailed("TOO_MANY_REDIRECTS")
  /\ Len(fRequests) = 3
  /\ Len(fResult.details.redirects) = 3
  /\ fResult.details.redirects[1].location # fResult.details.redirects[3].location

-----------------------------------------------------------------------------
(* C14 *)

\* the caller aborts the signal while a request is in flight
C14_ExternalAbortInFlight ==
  fPc = "fetching" /\ fListener /\ fSignal = "idle" /\ fSignal' = "aborted"

\* the request in flight fails for another reason: the per-request timeout, or a
\* transport error
C14_OtherFailureInFlight == FetchTimerFire \/ FetchFail

\* C14: when the caller's signal aborts a request in flight, the call fails with
\* ABORTED; when the request fails for any other reason, the call fails with
\* FETCH_FAILED.
C14_AbortIsAbortedElseFetchFailed ==
  [][/\ C14_ExternalAbortInFlight =>
          fPc' = "done" /\ fReply'.isError /\ fReply'.text.error.code = "ABORTED"
     /\ C14_OtherFailureInFlight =>
          fPc' = "done" /\ fReply'.isError /\ fReply'.text.error.code = "FETCH_FAILED"]_vars

-----------------------------------------------------------------------------
(* C15 *)

\* the caller's signal was aborted while the body of a terminal response is read
C15_AbortedWhileReading == fPc = "reading" /\ fSignal = "aborted"

\* C15: when the signal is aborted while the body of a terminal response is being
\* read, the call ends in ABORTED or FETCH_FAILED and returns no success outcome;
\* a truncated success is returned only when the byte cap caused the cut.
C15_CancelledReadNeverSucceeds ==
  [][/\ (C15_AbortedWhileReading /\ fPc' = "done") =>
          /\ ~fResult'.ok
          /\ fReply'.text.error.code \in {"ABORTED", "FETCH_FAILED"}
     /\ (fPc' = "done" /\ fResult'.ok /\ fResult'.value.truncated) =>
          fResult'.value.bytesRead = fInput.maxBytes]_vars

-----------------------------------------------------------------------------
(* C16 *)

RECURSIVE C16_Bytes(_, _)
\* the bytes in the first k chunks the stream gave
C16_Bytes(delivered, k) ==
  IF k = 0 THEN 0 ELSE C16_Bytes(delivered, k - 1) + delivered[k]

C16_Min(a, b) == IF a < b THEN a ELSE b

\* readBodyText returned, for a response with a body
C16_Returned == fPc = "done" /\ fResult.ok /\ fResp.hasBody

\* bytesRead is min(body bytes, maxBytes), and the text is made of the first
\* bytesRead bytes of the body in order: each chunk from its first byte, whole
\* but for the chunk that crosses the cap, which is cut at the cap
C16_PrefixKept(body, cap) ==
  /\ body.bytesRead = C16_Min(C16_Bytes(body.delivered, Len(body.delivered)), cap)
  /\ Len(body.text) <= Len(body.delivered)
  /\ \A k \in 1..Len(body.text) :
       /\ body.text[k].chunk = k
       /\ body.text[k].length =
            C16_Min(body.delivered[k], cap - C16_Bytes(body.delivered, k - 1))
  /\ C16_Bytes(body.delivered, Len(body.text)) >= body.bytesRead

\* the cap was reached by the first k chunks
C16_CapReached(body, cap, k) == C16_Bytes(body.delivered, k) >= cap

\* the statement of C16 as written: truncated exactly when the body is longer
\* than maxBytes, and once the cap is reached the reader is cancelled and no
\* further chunk is read
C16_TruncatedExactlyWhenLonger ==
  C16_Returned =>
    /\ C16_PrefixKept(fBody, fInput.maxBytes)
    /\ fResult.value.bytesRead = fBody.bytesRead
    /\ fResult.value.truncated =
         (C16_Bytes(fBody.delivered, Len(fBody.delivered)) > fInput.maxBytes)
    /\ C16_CapReached(fBody, fInput.maxBytes, Len(fBody.delivered)) => fBody.cancelled
    /\ \A k \in 1..(Len(fBody.delivered) - 1) : ~C16_CapReached(fBody, fInput.maxBytes, k)

\* C16: readBodyText returns bytesRead = min(body bytes, maxBytes) and the first
\* bytesRead bytes of the body in order; truncated is true when the body is longer
\* than maxBytes and false when it is shorter; when the chunks end exactly at the
\* cap one more chunk is read, and truncated is true exactly when that read gives
\* a chunk, even an empty one; the reader is cancelled exactly when truncated is
\* set, and nothing is read after the cancel.
C16_ReadBodyCapped ==
  /\ fBody.cancelled => fPc = "done"
  /\ C16_Returned =>
       /\ C16_PrefixKept(fBody, fInput.maxBytes)
       /\ fResult.value.bytesRead = fBody.bytesRead
       /\ fResult.value.truncated = fBody.truncated
       /\ C16_Bytes(fBody.delivered, Len(fBody.delivered)) > fInput.maxBytes =>
            fBody.truncated
       /\ C16_Bytes(fBody.delivered, Len(fBody.delivered)) < fInput.maxBytes =>
            ~fBody.truncated
       /\ fBody.truncated =
            (\/ C16_Bytes(fBody.delivered, Len(fBody.delivered)) > fInput.maxBytes
             \/ \E k \in 1..(Len(fBody.delivered) - 1) :
                  C16_CapReached(fBody, fInput.maxBytes, k))
       /\ fBody.cancelled = fBody.truncated
       /\ \A k \in 1..(Len(fBody.delivered) - 2) :
            ~C16_CapReached(fBody, fInput.maxBytes, k)

\* a body of 700 and 1024 bytes was read under a cap of 1024: the second chunk was
\* cut after 324 bytes
C16_Witness ==
  /\ C16_Returned
  /\ fInput.maxBytes = 1024
  /\ fBody.delivered = <<700, 1024>>
  /\ fResult.value.bytesRead = 1024
  /\ fResult.value.truncated
  /\ fResult.value.body = <<[chunk |-> 1, length |-> 700], [chunk |-> 2, length |-> 324]>>

-----------------------------------------------------------------------------
(* C17 *)

\* the fields of the request object that the parser does not recognize
C17_UnknownFields(raw, recognized) ==
  IF raw.t = "object" THEN DOMAIN raw \ ({"t"} \cup recognized) ELSE {}

C17_ExecUnknown ==
  C17_UnknownFields(eRaw, {"command", "args", "stdin", "timeoutMs", "maxOutputBytes"})

C17_FetchUnknown ==
  C17_UnknownFields(fRaw, {"url", "timeoutMs", "maxBytes", "maxRedirects"})

\* C17: both parsers reject a request object that contains a field outside the
\* recognized set with INVALID_INPUT, even when every recognized field is valid.
C17_UnknownFieldRejected ==
  /\ (C17_ExecUnknown # {} /\ ePc # "idle") =>
       ePc = "done" /\ Failed(eResult, "INVALID_INPUT") /\ spawns = 0
  /\ (C17_FetchUnknown # {} /\ fPc # "idle") =>
       FetchFailed("INVALID_INPUT") /\ fRequests = <<>>

-----------------------------------------------------------------------------
(* C18 *)

\* a supplied value that is not an integer, or lies outside [min, max]
C18_Bad(value, min, max) ==
  /\ value # Undef
  /\ \/ value.t # "number"
     \/ ~value.integer
     \/ value.v < min
     \/ value.v > max

\* the failure the claim states for a bad value of this field
C18_Refusal(field, min, max) ==
  [ok |-> FALSE, code |-> "INVALID_INPUT",
   details |-> [field |-> field, min |-> min, max |-> max]]

\* the exec request is node -v but for timeoutMs and maxOutputBytes, and was parsed
C18_ExecParsed ==
  /\ ePc # "idle"
  /\ eRaw.t = "object"
  /\ [eRaw EXCEPT !.timeoutMs = Undef, !.maxOutputBytes = Undef] = ExecBaseRaw

\* the fetch request is the GET but for its three numeric fields, and was parsed
C18_FetchParsed ==
  /\ fPc # "idle"
  /\ fRaw.t = "object"
  /\ [fRaw EXCEPT !.timeoutMs = Undef, !.maxBytes = Undef, !.maxRedirects = Num(0)]
       = FetchBaseRaw

\* C18: a numeric field whose value is not an integer or lies outside the
\* field's [min, max] makes the parser fail with INVALID_INPUT whose details hold
\* the field name and both bounds, in the non-integer case as in the out-of-range
\* case (the first bad field in the order of the checks is the one reported).
C18_BadNumberNamesFieldAndBounds ==
  /\ C18_ExecParsed =>
       /\ C18_Bad(eRaw.timeoutMs, 1, 120000) =>
            eResult = C18_Refusal("timeoutMs", 1, 120000)
       /\ (~C18_Bad(eRaw.timeoutMs, 1, 120000)
             /\ C18_Bad(eRaw.maxOutputBytes, 1024, 1000000)) =>
            eResult = C18_Refusal("maxOutputBytes", 1024, 1000000)
  /\ C18_FetchParsed =>
       /\ C18_Bad(fRaw.timeoutMs, 1, 30000) =>
            fResult = C18_Refusal("timeoutMs", 1, 30000)
       /\ (~C18_Bad(fRaw.timeoutMs, 1, 30000)
             /\ C18_Bad(fRaw.maxBytes, 1024, 1000000)) =>
            fResult = C18_Refusal("maxBytes", 1024, 1000000)
       /\ (~C18_Bad(fRaw.timeoutMs, 1, 30000)
             /\ ~C18_Bad(fRaw.maxBytes, 1024, 1000000)
             /\ C18_Bad(fRaw.maxRedirects, 0, 5)) =>
            fResult = C18_Refusal("maxRedirects", 0, 5)

-----------------------------------------------------------------------------
(* C19 *)

\* the exec invocation reached the process runner
C19_ExecRan == spawns > 0

\* the fetch invocation reached the network: a lookup or a request was made
C19_FetchRan == fDnsLog # <<>> \/ fRequests # <<>>

\* the value of a numeric field lies in [min, max], and is the default when the
\* request omits the field
C19_Clamped(value, supplied, min, max, defaultValue) ==
  /\ value \in min..max
  /\ supplied = Undef => value = defaultValue

C19_ExecWithinLimits(input) ==
  /\ C19_Clamped(input.timeoutMs, eRaw.timeoutMs, 1, 120000, 60000)
  /\ C19_Clamped(input.maxOutputBytes, eRaw.maxOutputBytes, 1024, 1000000, 200000)
  /\ ArrLen(input.args) <= 64
  /\ \A i \in 1..Len(input.args.items) : StrLen(input.args.items[i]) <= 8192
  /\ input.args.pad > 0 => StrLen(FillerArg) <= 8192
  /\ input.stdin # Undef => input.stdin.byteLength <= 200000
  /\ childStdin.ended => childStdin.written = input.stdin
  /\ stdoutC.bytes <= input.maxOutputBytes
  /\ stderrC.bytes <= input.maxOutputBytes

C19_FetchWithinLimits(input) ==
  /\ C19_Clamped(input.timeoutMs, fRaw.timeoutMs, 1, 30000, 15000)
  /\ C19_Clamped(input.maxBytes, fRaw.maxBytes, 1024, 1000000, 500000)
  /\ C19_Clamped(input.maxRedirects, fRaw.maxRedirects, 0, 5, 3)
  /\ fBody.bytesRead <= input.maxBytes
  /\ Len(fRequests) <= input.maxRedirects + 1

\* C19: whatever the caller requests, an exec invocation that reaches the process
\* runner runs with a timeout in 1..120000 ms (60000 when omitted), an output cap
\* in 1024..1000000 bytes (200000 when omitted), at most 64 arguments of at most
\* 8192 characters and a stdin of at most 200000 bytes; a fetch invocation that
\* reaches the network runs with a timeout in 1..30000 ms (default 15000), a body
\* cap in 1024..1000000 bytes (default 500000) and a redirect cap in 0..5
\* (default 3).
C19_LimitsAreClamped ==
  /\ C19_ExecRan =>
       parseExecToolInput(eRaw).ok /\ C19_ExecWithinLimits(parseExecToolInput(eRaw).value)
  /\ C19_FetchRan =>
       parseFetchToolInput(fRaw).ok /\ C19_FetchWithinLimits(parseFetchToolInput(fRaw).value)

\* both servers ran a call at the upper limits of its fields
C19_Witness ==
  /\ C19_ExecRan
  /\ eInput.timeoutMs = 120000
  /\ eInput.maxOutputBytes = 1000000
  /\ ePc = "done"
  /\ C19_FetchRan
  /\ fInput.timeoutMs = 30000
  /\ fInput.maxBytes = 1000000
  /\ fPc = "done" /\ fResult.ok

-----------------------------------------------------------------------------
(* C20 *)

\* the exec handler was called with a request its parser refuses
C20_ExecRefused == eRaw # Undef /\ ~parseExecToolInput(eRaw).ok

\* the fetch handler was called with a request its parser refuses
C20_FetchRefused == fRaw # Undef /\ ~parseFetchToolInput(fRaw).ok

\* the handler returned the failure of the parser as a structured error
C20_Structured(reply, failure) ==
  /\ reply.isError
  /\ ~reply.text.ok
  /\ reply.text.error.code = failure.code
  /\ reply.text.error.code \in {"INVALID_INPUT", "COMMAND_NOT_ALLOWED", "DISALLOWED_ARGUMENT"}

\* C20: in both handlers validation completes before any resource is acquired:
\* when the parser fails, no process is spawned, no timer is armed, no lookup and
\* no request is made in that invocation, and the failure is returned as a
\* structured error.
C20_ValidationPrecedesResources ==
  /\ C20_ExecRefused =>
       /\ spawns = 0 /\ child = "none" /\ proc = "none"
       /\ ~timerArmed /\ ~listener /\ killLog = <<>>
       /\ ePc \in {"idle", "done"}
       /\ ePc = "done" =>
            eResult = parseExecToolInput(eRaw)
              /\ C20_Structured(eReply, parseExecToolInput(eRaw))
  /\ C20_FetchRefused =>
       /\ fDnsLog = <<>> /\ fRequests = <<>>
       /\ ~fTimer /\ ~fListener
       /\ fPc \in {"idle", "done"}
       /\ fPc = "done" =>
            fResult = parseFetchToolInput(fRaw)
              /\ C20_Structured(fReply, parseFetchToolInput(fRaw))

\* both handlers refused their request: git -C / with DISALLOWED_ARGUMENT, the
\* GET with maxRedirects 6 with INVALID_INPUT
C20_Witness ==
  /\ C20_ExecRefused /\ ePc = "done"
  /\ eReply.isError /\ eReply.text.error.code = "DISALLOWED_ARGUMENT"
  /\ spawns = 0
  /\ C20_FetchRefused /\ fPc = "done"
  /\ fReply.isError /\ fReply.text.error.code = "INVALID_INPUT"
  /\ fRequests = <<>>

-----------------------------------------------------------------------------
(* C21 *)

\* the failure codes of the two servers
C21_Codes ==
  {"INVALID_INPUT", "COMMAND_NOT_ALLOWED", "DISALLOWED_ARGUMENT", "SPAWN_FAILED",
   "EXEC_FAILED", "TIMEOUT", "NON_ZERO_EXIT", "ABORTED", "INVALID_URL",
   "SSRF_BLOCKED", "DNS_FAILED", "FETCH_FAILED", "TOO_MANY_REDIRECTS",
   "INTERNAL_ERROR"}

\* reply is the success payload of what the core returned
C21_Success(reply, r) ==
  /\ ~reply.isError
  /\ reply.text.ok
  /\ r.ok
  /\ reply.text.value = r.value

\* reply is a failure payload {code, details?} of what the core threw, with
\* INTERNAL_ERROR for an exception that is no ToolError
C21_Failure(reply, r) ==
  /\ reply.isError
  /\ ~reply.text.ok
  /\ ~r.ok
  /\ "code" \in DOMAIN reply.text.error
  /\ DOMAIN reply.text.error \subseteq {"code", "details"}
  /\ reply.text.error.code \in C21_Codes
  /\ IF "native" \in DOMAIN r THEN reply.text.error.code = "INTERNAL_ERROR"
     ELSE reply.text.error.code = r.code

\* a call that has not completed has no reply, a completed one has a success
\* or a failure payload
C21_Reply(pc, reply, r) ==
  IF pc = "done"
    THEN reply # NoResult /\ (C21_Success(reply, r) \/ C21_Failure(reply, r))
  ELSE reply = NoResult

-----------------------------------------------------------------------------
(* C22 *)

\* the IPv4 table: the leading three octets of each block and its prefix length
C22_Table ==
  {<<0, 0, 0, 8>>, <<10, 0, 0, 8>>, <<100, 64, 0, 10>>, <<127, 0, 0, 8>>,
   <<169, 254, 0, 16>>, <<172, 16, 0, 12>>, <<192, 168, 0, 16>>, <<192, 0, 0, 24>>,
   <<192, 0, 2, 24>>, <<198, 18, 0, 15>>, <<198, 51, 100, 24>>, <<203, 0, 113, 24>>,
   <<224, 0, 0, 4>>, <<240, 0, 0, 4>>}

\* the address with octets o lies in the block: their leading bits agree
C22_InBlock(o, blk) ==
  (o[1] * 65536 + o[2] * 256 + o[3]) \div (2 ^ (24 - blk[4]))
    = (blk[1] * 65536 + blk[2] * 256 + blk[3]) \div (2 ^ (24 - blk[4]))

C22_InTable(o) == \E blk \in C22_Table : C22_InBlock(o, blk)

\* C22: for a dotted quad a.b.c.d with octets in 0..255, isPrivateIp returns
\* true exactly when the address lies in one of the fourteen blocks of the
\* table; this includes the first and the last address of each block and the
\* addresses next to them.
C22_Ipv4TableExact ==
  fPc = "done" =>
    \A t \in IpTexts :
      t.version = 4 /\ t.text = fRaw => fResult = Ok(C22_InTable(t.addr))

\* 172.31.255.255, the last address of 172.16.0.0/12, was found private
C22_Witness ==
  /\ fPc = "done"
  /\ fRaw = QuadText(<<172, 31, 255, 255>>)
  /\ fResult = Ok(TRUE)

-----------------------------------------------------------------------------
(* C23 *)

\* g is ::ffff:a.b.c.d
C23_Mapped(g) == (\A k \in 1..5 : g[k] = 0) /\ g[6] = 65535

\* g is the unspecified address or loopback, or lies in fc00::/7, fe80::/10,
\* ff00::/8 or 2001:db8::/32
C23_InRanges(g) ==
  \/ g = <<0, 0, 0, 0, 0, 0, 0, 0>>
  \/ g = <<0, 0, 0, 0, 0, 0, 0, 1>>
  \/ g[1] \div 512 = 64512 \div 512
  \/ g[1] \div 64 = 65152 \div 64
  \/ g[1] \div 256 = 255
  \/ g[1] = 8193 /\ g[2] = 3512

\* what the claim says of the call on the text t.text of the address t.addr
C23_HoldsFor(t, result) ==
  /\ ipv6ToBigInt(t.text) = Ok(t.addr)
  /\ C23_InRanges(t.addr) => result = Ok(TRUE)
  /\ C23_Mapped(t.addr) =>
       result = isPrivateIp(QuadText(<<t.addr[7] \div 256, t.addr[7] % 256,
                                       t.addr[8] \div 256, t.addr[8] % 256>>))

\* C23: for IPv6 input, isPrivateIp returns true for the unspecified address,
\* for loopback and for every address in fc00::/7, fe80::/10, ff00::/8 and
\* 2001:db8::/32; for ::ffff:a.b.c.d, with a dotted-quad tail or two hex groups,
\* it returns what it returns for a.b.c.d; and every way of writing an address
\* is expanded to the same eight groups as its full form.
C23_Ipv6RangesAndMapped ==
  fPc = "done" =>
    \A t \in IpTexts : t.version = 6 /\ t.text = fRaw => C23_HoldsFor(t, fResult)

-----------------------------------------------------------------------------
(* C24 *)

\* the call has a target whose host is an IPv6 literal
C24_Literal6Target ==
  /\ fPc # "idle"
  /\ fCurrent # NoUrl
  /\ fCurrent.href.valid
  /\ fCurrent.href.hostname \in LiteralHosts6

\* C24: when the host of the target is a literal IPv6 address, written in
\* brackets in the URL, assertUrlAllowed makes no DNS lookup for it: a private
\* or reserved literal fails with SSRF_BLOCKED, and a public literal is allowed.
C24_BracketedLiteralChecked ==
  C24_Literal6Target =>
    /\ fDnsLog = <<>>
    /\ IF fCurrent.href.hostname \in {h_bracketLoopback6, h_bracketPrivate6}
         THEN fPc = "done" /\ Failed(fResult, "SSRF_BLOCKED")
         ELSE fAccepted # <<>> /\ fAccepted[1].url = fCurrent

-----------------------------------------------------------------------------
(* C25 *)

\* hostname without one trailing dot; the names of the model are in lower case
C25_Bare(hostname) ==
  IF hostname # <<>> /\ hostname[Len(hostname)] = "."
    THEN SubSeq(hostname, 1, Len(hostname) - 1) ELSE hostname

\* name ends in suffix
C25_EndsIn(name, suffix) ==
  \E k \in 0..Len(name) : SubSeq(name, k + 1, Len(name)) = suffix

\* the target of the call has a reserved hostname
C25_ReservedTarget ==
  /\ fPc # "idle"
  /\ fCurrent # NoUrl
  /\ fCurrent.href.valid
  /\ LET name == C25_Bare(fCurrent.href.hostname)
     IN \/ name = <<"l", "o", "c", "a", "l", "h", "o", "s", "t">>
        \/ C25_EndsIn(name, <<".", "l", "o", "c", "a", "l">>)
        \/ C25_EndsIn(name, <<".", "i", "n", "t", "e", "r", "n", "a", "l">>)

\* the target is an http(s) URL without username and password
C25_PlainHttp ==
  /\ fCurrent.href.protocol \in {"http:", "https:"}
  /\ fCurrent.href.username = ""
  /\ fCurrent.href.password = ""

\* C25 as stated: every target with a reserved hostname fails with
\* SSRF_BLOCKED, and no DNS lookup and no request is made for it.
C25_AnyReservedNameBlocked ==
  C25_ReservedTarget =>
    /\ fPc = "done"
    /\ Failed(fResult, "SSRF_BLOCKED")
    /\ fDnsLog = <<>>
    /\ fRequests = <<>>

\* C25: a target whose hostname, lower-cased and without one trailing dot, is
\* localhost or ends in .local or .internal is refused, and no DNS lookup and
\* no request is made for it: with SSRF_BLOCKED when it is an http(s) URL
\* without username and password, with INVALID_URL otherwise.
C25_ReservedNameBlocked ==
  C25_ReservedTarget =>
    /\ fPc = "done"
    /\ IF C25_PlainHttp
         THEN /\ Failed(fResult, "SSRF_BLOCKED")
              /\ fReply = errorResult("SSRF_BLOCKED",
                                      [hostname |-> fCurrent.href.hostname])
         ELSE Failed(fResult, "INVALID_URL")
    /\ fDnsLog = <<>>
    /\ fRequests = <<>>

\* http://db.internal./ was refused with SSRF_BLOCKED
C25_Witness ==
  /\ fPc = "done"
  /\ fCurrent # NoUrl
  /\ fCurrent.href.hostname = h_dbInternalDot
  /\ Failed(fResult, "SSRF_BLOCKED")
  /\ fDnsLog = <<>>

-----------------------------------------------------------------------------
(* C26 *)

\* the target of iteration fI does not parse, has another scheme than http and
\* https, or carries a username or password
C26_BadTarget ==
  /\ fPc # "idle"
  /\ InIteration
  /\ \/ ~fCurrent.href.valid
     \/ fCurrent.href.protocol \notin {"http:", "https:"}
     \/ fCurrent.href.username # ""
     \/ fCurrent.href.password # ""

\* the response is a redirect whose Location does not parse as a URL
C26_BadRedirectTarget ==
  /\ fResp # NoResp
  /\ isRedirectStatus(fResp.status)
  /\ fResp.location = BadLocation

\* iteration fI ended with INVALID_URL without a lookup or a request
C26_RefusedAsInvalid ==
  /\ FetchFailed("INVALID_URL")
  /\ Failed(fResult, "INVALID_URL")
  /\ NoLookupInIteration
  /\ NoRequestInIteration

\* C26: a target, initial or of a redirect, that does not parse, whose scheme
\* is not http or https, or that carries a username or password fails with
\* INVALID_URL, also when its host is private, and no DNS lookup and no
\* request is made for it.
C26_BadTargetIsInvalidUrl ==
  /\ C26_BadTarget => C26_RefusedAsInvalid
  /\ C26_BadRedirectTarget => FetchFailed("INVALID_URL")

-----------------------------------------------------------------------------
(* C27 *)

\* runExecTool returned or threw after spawn had returned a child, that is
\* after the timer was armed
C27_EndedAfterArming == ePc = "done" /\ child # "none"

\* C27: on every path by which runExecTool returns or throws after the timer
\* was armed (success, NON_ZERO_EXIT, TIMEOUT, ABORTED, EXEC_FAILED) the timer
\* is cleared and the abort listener is detached, and once the call has ended
\* no timer callback and no abort event issues a kill.
C27_TimerAndListenerReleased ==
  /\ C27_EndedAfterArming => ~timerArmed /\ ~listener
  /\ \A k \in 1..Len(killLog) :
       killLog[k].by \in {"timer", "abort"} => killLog[k].at # "done"

-----------------------------------------------------------------------------
(* C28 *)

\* the chunks delivered on one stream, in order, as the Buffers they were
C28_Delivered(stream) ==
  LET D == eHist.delivered
      own == {k \in 1..Len(D) : D[k].stream = stream}
      nth(j) == CHOOSE k \in own : Cardinality({i \in own : i < k}) = j - 1
  IN [j \in 1..Cardinality(own) |-> Buffer(nth(j), D[nth(j)].length)]

RECURSIVE C28_Total(_)
C28_Total(chunks) ==
  IF chunks = <<>> THEN 0 ELSE Head(chunks).length + C28_Total(Tail(chunks))

\* the first n bytes of the chunks, as pieces: whole chunks, and the leading
\* part of the chunk in which byte n lies
RECURSIVE C28_FirstBytes(_, _)
C28_FirstBytes(chunks, n) ==
  IF n = 0 \/ chunks = <<>> THEN <<>>
  ELSE IF Head(chunks).length >= n THEN <<[Head(chunks) EXCEPT !.length = n]>>
  ELSE <<Head(chunks)>> \o C28_FirstBytes(Tail(chunks), n - Head(chunks).length)

\* collector c holds what the claim says after these chunks, with this cap
C28_Holds(c, chunks, cap) ==
  LET total == C28_Total(chunks)
      kept == IF total < cap THEN total ELSE cap
  IN /\ c.bytes <= cap
     /\ c.bytes = kept
     /\ C28_Total(c.chunks) = kept
     /\ text(c) = C28_FirstBytes(chunks, kept)
     /\ c.truncated <=> total > cap

\* C28: each collector, with the cap maxOutputBytes, stores at most the cap,
\* stores exactly the first min(total, cap) bytes delivered on its stream in
\* order (a chunk crossing the cap is cut at the cap), and is flagged
\* truncated exactly when more bytes than the cap were delivered; what one
\* collector holds depends on the chunks of its own stream alone.
C28_CollectorsCapped ==
  ePc # "idle" /\ parseExecToolInput(eRaw).ok =>
    /\ C28_Holds(stdoutC, C28_Delivered("stdout"), eInput.maxOutputBytes)
    /\ C28_Holds(stderrC, C28_Delivered("stderr"), eInput.maxOutputBytes)

\* stdout was cut inside its second chunk while stderr holds its one chunk whole
C28_Witness ==
  /\ stdoutC.truncated
  /\ Len(stdoutC.chunks) = 2
  /\ stdoutC.chunks[2].length = 324
  /\ eHist.delivered[stdoutC.chunks[2].id].length = 1025
  /\ ~stderrC.truncated
  /\ stderrC.bytes = 1024

-----------------------------------------------------------------------------
(* C29 *)

C29_RedirectStatuses == {301, 302, 303, 307, 308}

\* what a Location header is as a URL, resolved against the URL requested
C29_Against(location, requested) ==
  IF location.kind = "absolute" THEN location.url
  ELSE [requested EXCEPT !.pathname = location.pathname]

\* a response with a redirect status and a Location: the resolved Location is
\* appended to the history with the status, no body is read, and the hop is next
C29_Redirected ==
  /\ fPc' = "hop"
  /\ Len(fRedirects') = Len(fRedirects) + 1
  /\ SubSeq(fRedirects', 1, Len(fRedirects)) = fRedirects
  /\ fRedirects'[Len(fRedirects')].status = fResp'.status
  /\ fResp'.location.kind \in {"absolute", "path"} =>
       fRedirects'[Len(fRedirects')].location
         = UrlString(C29_Against(fResp'.location, fAllowed.href))
  /\ fBody' = NoBody

\* a response with any other status: the loop ends, with the outcome for the
\* URL just requested or with the reading of its body
C29_Final ==
  /\ fRedirects' = fRedirects
  /\ fRequests' = fRequests
  /\ \/ fPc' = "reading"
     \/ /\ fPc' = "done"
        /\ fResult'.ok
        /\ fResult'.value.url = fAllowed
        /\ fResult'.value.status = fResp'.status

\* what the arrival of a response does
C29_OnResponse ==
  IF fResp'.status \in C29_RedirectStatuses
    THEN IF fResp'.location.kind \in {"null", "empty"}
           THEN fPc' = "done" /\ Failed(fResult', "FETCH_FAILED")
           ELSE C29_Redirected
    ELSE C29_Final

\* the hop makes the last Location of the history the target, in the next
\* iteration
C29_OnHop ==
  /\ fCurrent' = fRedirects[Len(fRedirects)].location
  /\ fI' = fI + 1

\* a request is outstanding only while the call waits for its response, each
\* iteration issued at most one, the timer is pending only for the outstanding
\* request, and an outcome has a final status and the last validated URL
C29_OneAtATime ==
  /\ Len(fRequests) <= fI + 1
  /\ \A j, k \in 1..Len(fRequests) : j < k => fRequests[j].i < fRequests[k].i
  /\ fTimer => fPc = "fetching"
  /\ fListener => fPc = "fetching"
  /\ fPc = "fetching" => fRequests # <<>> /\ fRequests[Len(fRequests)].i = fI
  /\ fPc = "done" /\ fResult.ok =>
       /\ fResult.value.status \notin C29_RedirectStatuses
       /\ fAccepted # <<>>
       /\ fResult.value.url = fAccepted[Len(fAccepted)].url

\* C29: a response is a redirect exactly when its status is 301, 302, 303, 307
\* or 308: its Location is resolved against the URL just requested, appended
\* to the history with the status, and is the next target, and no body is
\* returned for it; a redirect status with no Location fails with
\* FETCH_FAILED; any other status, 300 and 304 too, ends the loop with the
\* outcome for the last validated target.  At most one request is outstanding
\* at any time, and the timer of a hop is cleared before the next hop starts.
C29_RedirectsInSequence ==
  [][/\ FetchResponse => C29_OnResponse
     /\ NextHop => C29_OnHop
     /\ C29_OneAtATime']_vars

-----------------------------------------------------------------------------
(* C30 *)

\* the lookup for the target of this iteration has just answered, and
\* assertUrlAllowed let the URL through: the request for it is outstanding
C30_LetThroughAfterLookup ==
  /\ fPc = "fetching"
  /\ fAddrs # NoAnswer
  /\ fAccepted # <<>>
  /\ fAccepted[Len(fAccepted)].i = fI

\* C30: for a hostname that is no literal address, assertUrlAllowed lets the URL
\* through only if the lookup returned at least one address and every address
\* it returned is public; a lookup that succeeds with an empty list does not
\* allow the URL.
C30_AllowedOnlyWithPublicAnswer ==
  C30_LetThroughAfterLookup =>
    /\ fAddrs.ok
    /\ Len(fAddrs.addrs) >= 1
    /\ \A k \in 1..Len(fAddrs.addrs) : ~C5_Private(fAddrs.addrs[k])

====
